---- MODULE Spec2Model ----
(***************************************************************************)
(* A model of galfthan/audiorecorder: the accumulation Buffer, the         *)
(* time-synchronised mixer, and the incremental WAV writer of the audio    *)
(* package.  Each component has its own specification over its own group   *)
(* of variables; the variables of the other groups stay parked.            *)
(*                                                                         *)
(* Samples (float32 in the code) are integers counting quarters, so 4      *)
(* stands for 1.0.  Instants (time.Time) are integers counting ticks of    *)
(* 1/TicksPerMs millisecond; ZeroTime is the zero value of time.Time.      *)
(***************************************************************************)
EXTENDS Integers, Sequences, FiniteSets, Bags, TLC

\* ------------------------------------------------------------------ bounds
MaxBuf == 3          \* most samples a Buffer holds in the sequential spec
MaxBatch == 2        \* most samples in one Add
MaxTs == 3           \* timestamps passed to Add are 1..MaxTs
MaxAddCalls == 3     \* Add calls in a run of the concurrent spec
MaxGetCalls == 3     \* Get calls in a run of the concurrent spec
MaxMixLen == 3       \* most samples in one input of the mixer
MaxTick == 6         \* the mixer's input timestamps are 1..MaxTick ticks
TicksPerMs == 2      \* ticks in a millisecond: instants finer than 1 ms exist
MaxPayload == 4      \* most samples in the file
MaxStarts == 2       \* StartRecording calls in a run of the recorder spec
MaxRecAdds == 2      \* AddMicSamples and AddSpeakerSamples calls in a run
MaxSegments == 3     \* segments the engine returns in a run of the segment spec
MaxEngineSegs == 2   \* most segments one engine call returns
MaxRoutines == 2     \* writeRoutine goroutines alive at a time
MaxEngineCalls == 2  \* engine calls in such a run
MaxChunks == 2       \* AddMicChunk and AddSpeakerChunk calls in a run
MaxDelayMs == 25     \* longest delay between the two inputs of the offset runs

ZeroTime == 0
SampleVals == {-4, 2}

RECURSIVE SeqsUpTo(_, _)
SeqsUpTo(S, n) ==
  IF n = 0 THEN {<<>>}
  ELSE LET shorter == SeqsUpTo(S, n - 1)
       IN  shorter \cup {Append(s, x) : s \in {q \in shorter : Len(q) = n - 1}, x \in S}

None == [op |-> "none"]

\* --------------------------------------------------------------- variables
VARIABLES
  \* a Buffer used by one caller
  buffer,    \* the Buffer: samples, sampleRate, channels, timestamp
  added,     \* samples passed to Add since the previous Get (or creation)
  firstTs,   \* timestamp of the Add that made the buffer non-empty
  last,      \* the last call: its arguments, its result, the state before it
  \* a Buffer shared by capture threads and the writer
  shared,    \* the Buffer the threads share
  mutex,     \* b.mutex: the thread holding it, or NoHolder
  pc,        \* each thread's position
  frame,     \* each thread's arguments and locals
  calls,     \* the batches of all Add calls made so far, in call order
  returned,  \* the batches whose Add has returned
  results,   \* what the Get calls returned, in order
  \* one call of the mixer
  mixIn,     \* its arguments
  mixOut,    \* its result, None before the call
  \* the output file and the recorder's running total
  file,             \* the WAV file: the two size fields and the payload
  currentFileSize,  \* Recorder.currentFileSize
  writable,         \* the last StartRecording initialised the file
  cycles,           \* the append cycles since then: counts and the last one
  \* a Recorder with its tasks (it shares file and currentFileSize)
  recordingActive,  \* Recorder.recordingActive
  writingActive,    \* Recorder.writingActive
  writeSignal,      \* the values buffered in Recorder.writeSignal
  stopSignal,       \* the values buffered in Recorder.stopSignal
  writerWaitGroup,  \* the counter of Recorder.writerWaitGroup
  micBuffer,        \* Recorder.micBuffer
  speakerBuffer,    \* Recorder.speakerBuffer
  mixedBuffer,      \* Recorder.mixedBuffer
  control,          \* the thread that calls StartRecording and StopRecording
  writers,          \* the audioWriterRoutine goroutines: how many at each position
  timers,           \* the saveTimerRoutine goroutines: how many at each position
  capture,          \* the two capture callbacks: position and arguments
  session,          \* counts of the calls and signals of the run
  \* the Transcriber's segments
  segments,         \* Transcriber.segments, the accumulator
  transcript,       \* the segments whose lines are in the transcript file, in order
  trLast,           \* the last call on the accumulator: arguments and result
  \* a Transcriber with its goroutines (it shares the three above)
  isRunning,        \* Transcriber.isRunning
  trStopSignal,     \* the values buffered in Transcriber.stopSignal
  trWriteSignal,    \* the values buffered in Transcriber.writeSignal
  context,          \* what the last Process left in Transcriber.context
  loops,            \* the processAudioLoop of each source: position and locals
  routines,         \* the writeRoutine goroutines: how many at each position
  trControl,        \* the thread that calls Start and Stop
  trSession,        \* counts of the calls of the run
  \* a ContinuousRecorder with its goroutines
  continuous        \* its fields, its callers and its saveChunksRoutines

bufVars == <<buffer, added, firstTs, last>>
concVars == <<shared, mutex, pc, frame, calls, returned, results>>
mixVars == <<mixIn, mixOut>>
wavVars == <<file, currentFileSize, writable, cycles>>
recVars == <<recordingActive, writingActive, writeSignal, stopSignal, writerWaitGroup,
             micBuffer, speakerBuffer, mixedBuffer, control, writers, timers, capture,
             session>>
segVars == <<segments, transcript, trLast>>
trVars == <<isRunning, trStopSignal, trWriteSignal, context, loops, routines, trControl,
            trSession>>
contVars == <<continuous>>
vars == <<bufVars, concVars, mixVars, wavVars, recVars, segVars, trVars, contVars>>

notBuf == <<concVars, mixVars, wavVars, recVars, segVars, trVars, contVars>>
notConc == <<bufVars, mixVars, wavVars, recVars, segVars, trVars, contVars>>
notMix == <<bufVars, concVars, wavVars, recVars, segVars, trVars, contVars>>
notWav == <<bufVars, concVars, mixVars, recVars, segVars, trVars, contVars>>
notRec == <<bufVars, concVars, mixVars, writable, cycles, segVars, trVars, contVars>>
notWatched == <<bufVars, concVars, mixVars, segVars, trVars, contVars>>
notSeg == <<bufVars, concVars, mixVars, wavVars, recVars, trVars, contVars>>
notTr == <<bufVars, concVars, mixVars, wavVars, recVars, contVars>>
notCont == <<bufVars, concVars, mixVars, wavVars, recVars, segVars, trVars>>

\* ------------------------------------------------------------------ Buffer

NewBuffer(sampleRate, channels) ==
  [samples |-> <<>>, sampleRate |-> sampleRate, channels |-> channels,
   timestamp |-> ZeroTime]

BufferAdd_AlwaysStamp(b, samples, timestamp) ==
  [b EXCEPT !.timestamp = timestamp, !.samples = @ \o samples]

BufferAdd(b, samples, timestamp) ==
  [b EXCEPT !.timestamp = IF Len(b.samples) = 0 THEN timestamp ELSE @,
            !.samples = @ \o samples]

BufferGet_NoClear(b) ==
  [samples |-> b.samples, timestamp |-> b.timestamp,
   sampleRate |-> b.sampleRate, channels |-> b.channels,
   buffer |-> b]

BufferGet(b) ==
  [samples |-> b.samples, timestamp |-> b.timestamp,
   sampleRate |-> b.sampleRate, channels |-> b.channels,
   buffer |-> [b EXCEPT !.samples = <<>>]]

BufferIsEmpty(b) == Len(b.samples) = 0

\* The last n elements of s, all of s when it has fewer.
Trailing(s, n) == SubSeq(s, Len(s) - (IF n < Len(s) THEN n ELSE Len(s)) + 1, Len(s))

BufferPeek_Removes(b, n) ==
  [samples |-> Trailing(b.samples, n), timestamp |-> b.timestamp,
   buffer |-> [b EXCEPT !.samples = SubSeq(@, 1, Len(@) - Len(Trailing(@, n)))]]

\* Buffer.Peek, which processAudioLoop calls: a copy of the trailing window
\* of n samples and the batch-start timestamp; the buffer stays as it is.
BufferPeek(b, n) ==
  [samples |-> Trailing(b.samples, n), timestamp |-> b.timestamp, buffer |-> b]

BufferSize(b) == Len(b.samples)

InitBuf ==
  /\ buffer = NewBuffer(1000, 1)
  /\ added = <<>>
  /\ firstTs = ZeroTime
  /\ last = None

ParkBuf ==
  /\ buffer = NewBuffer(1000, 1)
  /\ added = <<>>
  /\ firstTs = ZeroTime
  /\ last = None

\* Buffer.Add(samples, timestamp), the whole call.
Add(samples, timestamp) ==
  /\ Len(buffer.samples) + Len(samples) <= MaxBuf
  /\ buffer' = BufferAdd(buffer, samples, timestamp)
  /\ added' = added \o samples
  /\ firstTs' = IF added = <<>> /\ samples # <<>> THEN timestamp ELSE firstTs
  /\ last' = [op |-> "Add", samples |-> samples, timestamp |-> timestamp,
              sizeBefore |-> Len(added), tsBefore |-> buffer.timestamp]
  /\ UNCHANGED notBuf

\* Buffer.Get(), the whole call.
Get ==
  LET r == BufferGet(buffer)
  IN  /\ buffer' = r.buffer
      /\ added' = <<>>
      /\ firstTs' = firstTs
      /\ last' = [op |-> "Get", samples |-> r.samples, timestamp |-> r.timestamp,
                  expected |-> added, expectedTs |-> firstTs,
                  prevAddTs |-> IF last.op = "Add" THEN last.timestamp ELSE ZeroTime,
                  prevOp |-> last.op]
      /\ UNCHANGED notBuf

\* Buffer.Peek with a window of n samples, the whole call.
Peek(n) ==
  LET r == BufferPeek(buffer, n)
  IN  /\ buffer' = r.buffer
      /\ last' = [op |-> "Peek", samples |-> r.samples, timestamp |-> r.timestamp,
                  n |-> n, before |-> buffer]
      /\ UNCHANGED <<added, firstTs, notBuf>>

NextBuf ==
  \/ \E samples \in SeqsUpTo(SampleVals, MaxBatch), timestamp \in 1..MaxTs :
       Add(samples, timestamp)
  \/ Get

\* The Buffer with the transcription loops' Peek among the calls.
NextPeek ==
  \/ NextBuf
  \/ \E n \in 0..MaxBuf : Peek(n)

\* C1: every Get returns exactly the concatenation, in call order, of the
\* samples passed to Add since the previous Get (or since creation), and right
\* after the Get Size() is 0 and IsEmpty() is true.
C1_GetReturnsAddedSinceLastGet ==
  last.op = "Get" =>
    /\ last.samples = last.expected
    /\ BufferSize(buffer) = 0
    /\ BufferIsEmpty(buffer)

\* A Get that returns the samples of at least two Adds.
C1_Witness ==
  /\ last.op = "Get"
  /\ Len(last.samples) > MaxBatch
  /\ last.samples = last.expected

\* C3: a Get that returns samples returns the timestamp of the Add that moved
\* the buffer from empty to non-empty, and an Add into a buffer that already
\* holds samples leaves the batch-start timestamp as it was.
C3_TimestampIsBatchStart ==
  /\ (last.op = "Get" /\ last.samples # <<>>) => last.timestamp = last.expectedTs
  /\ (last.op = "Add" /\ last.sizeBefore > 0) => buffer.timestamp = last.tsBefore

\* A Get of a batch whose latest Add carried another timestamp than its first.
C3_Witness ==
  /\ last.op = "Get"
  /\ last.samples # <<>>
  /\ last.prevAddTs # ZeroTime
  /\ last.prevAddTs # last.timestamp
  /\ last.timestamp = last.expectedTs

C23_GetClearsTimestamp ==
  last.op = "Get" =>
    /\ buffer.timestamp = ZeroTime
    /\ last.prevOp \in {"Get", "none"} => last.timestamp = ZeroTime

\* ------------------------------------------- Buffer under concurrent callers
\* Capture threads call Add while the writer calls Get on the same Buffer.
\* Each statement of Add and Get is one step; b.mutex is held from Lock to the
\* deferred Unlock.  The samples of the k-th Add call are 10*k+1, 10*k+2, ...
\* so that every sample of the run can be told from every other.
CaptureThreads == {"captureA", "captureB"}
Writer == "writer"
Threads == CaptureThreads \cup {Writer}
NoHolder == "free"
NoFrame == [samples |-> <<>>, timestamp |-> ZeroTime]

BatchOf(k, n) == [i \in 1..n |-> 10 * k + i]

CanLock_NoExclusion(m) == TRUE

\* sync.Mutex.Lock proceeds only when nobody holds the mutex.
CanLock(m) == m = NoHolder

InitConc ==
  /\ shared = NewBuffer(1000, 1)
  /\ mutex = NoHolder
  /\ pc = [t \in Threads |-> "idle"]
  /\ frame = [t \in Threads |-> NoFrame]
  /\ calls = <<>>
  /\ returned = {}
  /\ results = <<>>

ParkConc ==
  /\ shared = NewBuffer(1000, 1)
  /\ mutex = NoHolder
  /\ pc = [t \in Threads |-> "idle"]
  /\ frame = [t \in Threads |-> NoFrame]
  /\ calls = <<>>
  /\ returned = {}
  /\ results = <<>>

CallAdd(t, n) ==
  /\ pc[t] = "idle"
  /\ Len(calls) < MaxAddCalls
  /\ LET k == Len(calls) + 1
     IN  /\ frame' = [frame EXCEPT ![t] = [samples |-> BatchOf(k, n), timestamp |-> k]]
         /\ calls' = Append(calls, BatchOf(k, n))
  /\ pc' = [pc EXCEPT ![t] = "add_lock"]
  /\ UNCHANGED <<notConc, shared, mutex, returned, results>>

AddLock(t) ==
  /\ pc[t] = "add_lock"
  /\ CanLock(mutex)
  /\ mutex' = t
  /\ pc' = [pc EXCEPT ![t] = "add_stamp"]
  /\ UNCHANGED <<notConc, shared, frame, calls, returned, results>>

AddStamp(t) ==
  /\ pc[t] = "add_stamp"
  /\ shared' = IF Len(shared.samples) = 0
               THEN [shared EXCEPT !.timestamp = frame[t].timestamp]
               ELSE shared
  /\ pc' = [pc EXCEPT ![t] = "add_append"]
  /\ UNCHANGED <<notConc, mutex, frame, calls, returned, results>>

AddAppend(t) ==
  /\ pc[t] = "add_append"
  /\ shared' = [shared EXCEPT !.samples = @ \o frame[t].samples]
  /\ pc' = [pc EXCEPT ![t] = "add_unlock"]
  /\ UNCHANGED <<notConc, mutex, frame, calls, returned, results>>

AddUnlock(t) ==
  /\ pc[t] = "add_unlock"
  /\ mutex' = NoHolder
  /\ returned' = returned \cup {frame[t].samples}
  /\ frame' = [frame EXCEPT ![t] = NoFrame]
  /\ pc' = [pc EXCEPT ![t] = "idle"]
  /\ UNCHANGED <<notConc, shared, calls, results>>

CallGet ==
  /\ pc[Writer] = "idle"
  /\ Len(results) < MaxGetCalls
  /\ pc' = [pc EXCEPT ![Writer] = "get_lock"]
  /\ UNCHANGED <<notConc, shared, mutex, frame, calls, returned, results>>

GetLock ==
  /\ pc[Writer] = "get_lock"
  /\ CanLock(mutex)
  /\ mutex' = Writer
  /\ pc' = [pc EXCEPT ![Writer] = "get_copy"]
  /\ UNCHANGED <<notConc, shared, frame, calls, returned, results>>

GetCopy ==
  /\ pc[Writer] = "get_copy"
  /\ frame' = [frame EXCEPT ![Writer].samples = shared.samples]
  /\ pc' = [pc EXCEPT ![Writer] = "get_stamp"]
  /\ UNCHANGED <<notConc, shared, mutex, calls, returned, results>>

GetStamp ==
  /\ pc[Writer] = "get_stamp"
  /\ frame' = [frame EXCEPT ![Writer].timestamp = shared.timestamp]
  /\ pc' = [pc EXCEPT ![Writer] = "get_clear"]
  /\ UNCHANGED <<notConc, shared, mutex, calls, returned, results>>

GetClear ==
  /\ pc[Writer] = "get_clear"
  /\ shared' = [shared EXCEPT !.samples = <<>>]
  /\ pc' = [pc EXCEPT ![Writer] = "get_unlock"]
  /\ UNCHANGED <<notConc, mutex, frame, calls, returned, results>>

GetUnlock ==
  /\ pc[Writer] = "get_unlock"
  /\ mutex' = NoHolder
  /\ results' = Append(results, frame[Writer])
  /\ frame' = [frame EXCEPT ![Writer] = NoFrame]
  /\ pc' = [pc EXCEPT ![Writer] = "idle"]
  /\ UNCHANGED <<notConc, shared, calls, returned>>

NextConc ==
  \/ \E t \in CaptureThreads, n \in 1..MaxBatch : CallAdd(t, n)
  \/ \E t \in CaptureThreads : AddLock(t)
  \/ \E t \in CaptureThreads : AddStamp(t)
  \/ \E t \in CaptureThreads : AddAppend(t)
  \/ \E t \in CaptureThreads : AddUnlock(t)
  \/ CallGet
  \/ GetLock
  \/ GetCopy
  \/ GetStamp
  \/ GetClear
  \/ GetUnlock

RECURSIVE Flatten(_)
Flatten(ss) == IF ss = <<>> THEN <<>> ELSE Head(ss) \o Flatten(Tail(ss))

Range(s) == {s[i] : i \in DOMAIN s}

Delivered == Flatten([i \in DOMAIN results |-> results[i].samples])

\* batch is a contiguous run of s.
Within(batch, s) ==
  \E at \in 0..(Len(s) - Len(batch)) : \A i \in DOMAIN batch : s[at + i] = batch[i]

Occurrences(x, s) == Cardinality({i \in DOMAIN s : s[i] = x})

\* C2: with Add called by concurrent capture threads while the writer calls
\* Get, every batch is whole in exactly one Get result: a result holds each
\* batch entirely or not at all, no sample is delivered twice, and the samples
\* of every Add that has returned are in a Get result, in the buffer, or in the
\* copy a running Get is about to return.
C2_AddAtomicWithGet ==
  /\ \A r \in DOMAIN results : \A c \in DOMAIN calls :
       \/ Range(calls[c]) \cap Range(results[r].samples) = {}
       \/ Within(calls[c], results[r].samples)
  /\ \A c \in DOMAIN calls : \A i \in DOMAIN calls[c] :
       Occurrences(calls[c][i], Delivered \o shared.samples) <= 1
  /\ \A batch \in returned :
       \/ Within(batch, Delivered)
       \/ Within(batch, shared.samples)
       \/ pc[Writer] \in {"get_stamp", "get_clear", "get_unlock"}
            /\ Within(batch, frame[Writer].samples)
  /\ (\A t \in Threads : pc[t] = "idle") =>
       Range(Delivered) \cup Range(shared.samples) = UNION {Range(b) : b \in returned}

\* Two Gets have returned, one of them with more than one batch, and an Add
\* is waiting for the mutex that a running Get holds.
C2_Witness ==
  /\ Len(results) >= 2
  /\ \E r \in DOMAIN results : Len(results[r].samples) > MaxBatch
  /\ mutex = Writer
  /\ \E t \in CaptureThreads : pc[t] = "add_lock"

\* ------------------------------------------------------------------- mixer
Max(a, b) == IF a > b THEN a ELSE b

\* (a + b) * 0.5 in float32.  The samples of the model are even, so the
\* half is exact, as it is for floats.
Half(x) == x \div 2

\* time.Duration.Milliseconds(): the duration in whole milliseconds,
\* truncated toward zero.
Milliseconds(d) == IF d >= 0 THEN d \div TicksPerMs ELSE -((-d) \div TicksPerMs)

\* float64 arithmetic.  A natural number is the sequence of its binary digits,
\* most significant first (<<>> is 0); a float64 is mant * 2^exp with mant
\* such a number of at most Mantissa digits.
Mantissa == 53

RECURSIVE Bits(_)
Bits(n) == IF n = 0 THEN <<>> ELSE Append(Bits(n \div 2), n % 2)

RECURSIVE Value(_)
Value(b) == IF b = <<>> THEN 0 ELSE 2 * Value(SubSeq(b, 1, Len(b) - 1)) + b[Len(b)]

Strip(b) ==
  LET ones == {i \in 1..Len(b) : b[i] = 1}
  IN  IF ones = {} THEN <<>>
      ELSE SubSeq(b, CHOOSE i \in ones : \A j \in ones : i <= j, Len(b))

Zeros(n) == [i \in 1..n |-> 0]

Plus1(b) ==
  LET zeros == {i \in 1..Len(b) : b[i] = 0}
  IN  IF zeros = {} THEN <<1>> \o Zeros(Len(b))
      ELSE LET k == CHOOSE i \in zeros : \A j \in zeros : j <= i
           IN  SubSeq(b, 1, k - 1) \o <<1>> \o Zeros(Len(b) - k)

Reverse(b) == [i \in 1..Len(b) |-> b[Len(b) + 1 - i]]

\* The digits lo..hi of b, least significant first, times the small number
\* k, plus carry: the digits of the product at those places and the carry out
\* of them.  The range is halved, the lower places first, as the carry runs.
RECURSIVE TimesFrom(_, _, _, _, _)
TimesFrom(b, k, lo, hi, carry) ==
  IF lo > hi THEN [digits |-> <<>>, carry |-> carry]
  ELSE IF lo = hi
  THEN LET t == b[lo] * k + carry
       IN  [digits |-> <<t % 2>>, carry |-> t \div 2]
  ELSE LET mid == (lo + hi) \div 2
           low == TimesFrom(b, k, lo, mid, carry)
           high == TimesFrom(b, k, mid + 1, hi, low.carry)
       IN  [digits |-> low.digits \o high.digits, carry |-> high.carry]

Times(b, k) ==
  LET p == TimesFrom(Reverse(b), k, 1, Len(b), 0)
  IN  Strip(Bits(p.carry) \o Reverse(p.digits))

\* Long division of the digits lo..hi of b by the small number d, rem being
\* the remainder of the digits before them.  The range is halved, the high
\* half first.
RECURSIVE DivFrom(_, _, _, _, _)
DivFrom(b, d, lo, hi, rem) ==
  IF lo > hi THEN [quot |-> <<>>, rem |-> rem]
  ELSE IF lo = hi
  THEN LET t == 2 * rem + b[lo]
       IN  [quot |-> <<t \div d>>, rem |-> t % d]
  ELSE LET mid == (lo + hi) \div 2
           high == DivFrom(b, d, lo, mid, rem)
           low == DivFrom(b, d, mid + 1, hi, high.rem)
       IN  [quot |-> high.quot \o low.quot, rem |-> low.rem]

\* Rounding to nearest, ties to even, of the number b (plus a fraction below
\* its last digit when sticky) to Mantissa digits.
RoundToEven(b, sticky) ==
  IF Len(b) <= Mantissa THEN [mant |-> b, exp |-> 0]
  ELSE LET keep == SubSeq(b, 1, Mantissa)
           rest == SubSeq(b, Mantissa + 1, Len(b))
           below == sticky \/ \E i \in 2..Len(rest) : rest[i] = 1
           up == rest[1] = 1 /\ (below \/ keep[Mantissa] = 1)
       IN  [mant |-> IF up THEN Plus1(keep) ELSE keep, exp |-> Len(rest)]

\* float64(n) / float64(d) for integers 0 < n, d < 2^31: the quotient digits
\* of n * 2^64 / d are more than Mantissa, so the rounding sees them all.
Float64Quo(n, d) ==
  LET b == Bits(n) \o Zeros(64)
      q == DivFrom(b, d, 1, Len(b), 0)
      r == RoundToEven(Strip(q.quot), q.rem # 0)
  IN  [mant |-> r.mant, exp |-> r.exp - 64]

\* float64(n) * x for an integer 0 <= n < 2^31.
Float64Mul(n, x) ==
  LET r == RoundToEven(Times(x.mant, n), FALSE)
  IN  [mant |-> r.mant, exp |-> r.exp + x.exp]

\* int(x) for x >= 0: the fraction is dropped.
Float64ToInt(x) ==
  IF x.exp >= 0 THEN Value(x.mant \o Zeros(x.exp))
  ELSE IF Len(x.mant) + x.exp <= 0 THEN 0
  ELSE Value(SubSeq(x.mant, 1, Len(x.mant) + x.exp))

OffsetSamples_IgnoresChannels(timeDiffMs, sampleRate, channels) ==
  (timeDiffMs * sampleRate) \div 1000

\* samplesPerMs := float64(sampleRate*channels) / 1000.0 and
\* int(float64(timeDiffMs) * samplesPerMs), as the float64 operations compute
\* them: on the magnitude, the sign apart.
OffsetSamples(timeDiffMs, sampleRate, channels) ==
  LET samplesPerMs == Float64Quo(sampleRate * channels, 1000)
      magnitude == IF timeDiffMs < 0 THEN -timeDiffMs ELSE timeDiffMs
      offset == Float64ToInt(Float64Mul(magnitude, samplesPerMs))
  IN  IF timeDiffMs < 0 THEN -offset ELSE offset

MixAudioSamples_Shorter(samples1, samples2) ==
  IF Len(samples1) = 0 THEN samples2
  ELSE IF Len(samples2) = 0 THEN samples1
  ELSE [i \in 1..(IF Len(samples1) < Len(samples2) THEN Len(samples1) ELSE Len(samples2)) |->
          Half(samples1[i] + samples2[i])]

MixAudioSamples(samples1, samples2) ==
  IF Len(samples1) = 0 THEN samples2
  ELSE IF Len(samples2) = 0 THEN samples1
  ELSE [i \in 1..Max(Len(samples1), Len(samples2)) |->
          IF i <= Len(samples2)
          THEN IF i <= Len(samples1) THEN Half(samples1[i] + samples2[i])
               ELSE samples2[i]
          ELSE samples1[i]]

FirstIsReference_Reversed(timestamp1, timestamp2) == timestamp2 < timestamp1

\* timestamp1.Before(timestamp2): the first input is the reference.
FirstIsReference(timestamp1, timestamp2) == timestamp1 < timestamp2

TotalLength_Sum(refLen, offsetSamples, laterLen) == refLen + laterLen

TotalLength(refLen, offsetSamples, laterLen) ==
  IF offsetSamples + laterLen > refLen THEN offsetSamples + laterLen ELSE refLen

MixAtOffset_Overwrites(refSamples, laterSamples, offsetSamples) ==
  [pos \in 1..TotalLength(Len(refSamples), offsetSamples, Len(laterSamples)) |->
     IF pos > offsetSamples /\ pos - offsetSamples <= Len(laterSamples)
     THEN laterSamples[pos - offsetSamples]
     ELSE IF pos <= Len(refSamples) THEN refSamples[pos] ELSE 0]

\* make, copy and the loop over laterSamples: position pos of the code is
\* index pos + 1 here.
MixAtOffset(refSamples, laterSamples, offsetSamples) ==
  [pos \in 1..TotalLength(Len(refSamples), offsetSamples, Len(laterSamples)) |->
     IF pos > offsetSamples /\ pos - offsetSamples <= Len(laterSamples)
     THEN IF pos <= Len(refSamples)
          THEN Half(refSamples[pos] + laterSamples[pos - offsetSamples])
          ELSE laterSamples[pos - offsetSamples]
     ELSE IF pos <= Len(refSamples) THEN refSamples[pos] ELSE 0]

TimeSyncMixBoth_FirstAsReference(samples1, timestamp1, samples2, timestamp2, sampleRate, channels) ==
  LET timeDiffMs == Milliseconds(timestamp2 - timestamp1)
      offsetSamples == OffsetSamples(timeDiffMs, sampleRate, channels)
  IN  IF offsetSamples <= 0
      THEN [samples |-> MixAudioSamples(samples1, samples2), timestamp |-> timestamp1]
      ELSE [samples |-> MixAtOffset(samples1, samples2, offsetSamples),
            timestamp |-> timestamp1]

\* TimeSyncMixAudioSamples once both inputs are known to be non-empty.
TimeSyncMixBoth(samples1, timestamp1, samples2, timestamp2, sampleRate, channels) ==
  LET first == FirstIsReference(timestamp1, timestamp2)
      refSamples == IF first THEN samples1 ELSE samples2
      refTimestamp == IF first THEN timestamp1 ELSE timestamp2
      laterSamples == IF first THEN samples2 ELSE samples1
      laterTimestamp == IF first THEN timestamp2 ELSE timestamp1
      timeDiffMs == Milliseconds(laterTimestamp - refTimestamp)
      offsetSamples == OffsetSamples(timeDiffMs, sampleRate, channels)
  IN  IF offsetSamples <= 0
      THEN [samples |-> MixAudioSamples(samples1, samples2), timestamp |-> refTimestamp]
      ELSE [samples |-> MixAtOffset(refSamples, laterSamples, offsetSamples),
            timestamp |-> refTimestamp]

TimeSyncMixAudioSamples_KeepsFirstStamp(samples1, timestamp1, samples2, timestamp2, sampleRate, channels) ==
  IF Len(samples1) = 0 THEN [samples |-> samples2, timestamp |-> timestamp1]
  ELSE IF Len(samples2) = 0 THEN [samples |-> samples1, timestamp |-> timestamp1]
  ELSE TimeSyncMixBoth(samples1, timestamp1, samples2, timestamp2, sampleRate, channels)

TimeSyncMixAudioSamples(samples1, timestamp1, samples2, timestamp2, sampleRate, channels) ==
  IF Len(samples1) = 0 THEN [samples |-> samples2, timestamp |-> timestamp2]
  ELSE IF Len(samples2) = 0 THEN [samples |-> samples1, timestamp |-> timestamp1]
  ELSE TimeSyncMixBoth(samples1, timestamp1, samples2, timestamp2, sampleRate, channels)

SampleRates == {500, 1000}
ChannelCounts == {1, 2}

\* Two one-second batches at 16 kHz mono, the second one 250 ms later.
EndToEndInput ==
  [samples1 |-> [i \in 1..16000 |-> 4 * (i % 2) - 2], timestamp1 |-> 1,
   samples2 |-> [i \in 1..16000 |-> 2 * (i % 3)], timestamp2 |-> 1 + 250 * TicksPerMs,
   sampleRate |-> 16000, channels |-> 1]

MixInputs ==
  [samples1 : SeqsUpTo(SampleVals, MaxMixLen), timestamp1 : 1..MaxTick,
   samples2 : SeqsUpTo(SampleVals, MaxMixLen), timestamp2 : 1..MaxTick,
   sampleRate : SampleRates, channels : ChannelCounts]
    \cup {EndToEndInput}

\* Rates in use for PCM audio, and one-sample inputs 0..MaxDelayMs whole
\* milliseconds apart: the length of their mix shows the offset.
DelayRates == {8000, 16000, 18900, 37800, 44100, 48000}

DelayInputs ==
  [samples1 : {<<2>>}, timestamp1 : {1},
   samples2 : {<<-4>>}, timestamp2 : {1 + d * TicksPerMs : d \in 0..MaxDelayMs},
   sampleRate : DelayRates, channels : ChannelCounts]

InitMixDelays ==
  /\ mixIn \in DelayInputs
  /\ mixOut = None

InitMix ==
  /\ mixIn \in MixInputs
  /\ mixOut = None

ParkMix ==
  /\ mixIn = None
  /\ mixOut = None

Mix ==
  /\ mixOut = None
  /\ mixOut' = [op |-> "mixed",
                out |-> TimeSyncMixAudioSamples(mixIn.samples1, mixIn.timestamp1,
                                                mixIn.samples2, mixIn.timestamp2,
                                                mixIn.sampleRate, mixIn.channels)]
  /\ UNCHANGED <<mixIn, notMix>>

NextMix == Mix

\* What the mixer claims speak of, computed from the inputs alone.
BothNonEmpty == Len(mixIn.samples1) > 0 /\ Len(mixIn.samples2) > 0
FirstEarlier == mixIn.timestamp1 < mixIn.timestamp2
BatchA == IF FirstEarlier THEN mixIn.samples1 ELSE mixIn.samples2
BatchB == IF FirstEarlier THEN mixIn.samples2 ELSE mixIn.samples1
DelayTicks ==
  IF FirstEarlier THEN mixIn.timestamp2 - mixIn.timestamp1
  ELSE mixIn.timestamp1 - mixIn.timestamp2
DelayMs == DelayTicks \div TicksPerMs
WholeMsDelay == DelayTicks % TicksPerMs = 0
ExpectedOffset == (DelayMs * mixIn.sampleRate * mixIn.channels) \div 1000
Mixed == mixOut.out.samples

\* C4: with exactly one input empty, the mixer returns the other input's
\* samples and timestamp unchanged, whichever argument is the empty one.
C4_MixerIdentity ==
  mixOut # None =>
    /\ (Len(mixIn.samples1) = 0 /\ Len(mixIn.samples2) > 0) =>
         mixOut.out = [samples |-> mixIn.samples2, timestamp |-> mixIn.timestamp2]
    /\ (Len(mixIn.samples2) = 0 /\ Len(mixIn.samples1) > 0) =>
         mixOut.out = [samples |-> mixIn.samples1, timestamp |-> mixIn.timestamp1]

\* The first input is empty and the second, with another timestamp, came back.
C4_Witness ==
  /\ mixOut # None
  /\ Len(mixIn.samples1) = 0
  /\ Len(mixIn.samples2) = MaxMixLen
  /\ mixIn.timestamp1 # mixIn.timestamp2
  /\ mixOut.out.samples = mixIn.samples2
  /\ mixOut.out.timestamp = mixIn.timestamp2

\* The second part of the offset property: every sample of the later batch B
\* lands at offset+i, averaged with A where A has that position.
LaterBatchPlaced ==
  \A i \in 0..(Len(BatchB) - 1) :
    /\ ExpectedOffset + i + 1 \in DOMAIN Mixed
    /\ Mixed[ExpectedOffset + i + 1] =
         IF ExpectedOffset + i < Len(BatchA)
         THEN Half(BatchA[ExpectedOffset + i + 1] + BatchB[i + 1])
         ELSE BatchB[i + 1]

C6_OutputLength ==
  mixOut # None =>
    /\ (BothNonEmpty /\ ExpectedOffset > 0) =>
         Len(Mixed) = Max(Len(BatchA), ExpectedOffset + Len(BatchB))
    /\ mixIn.sampleRate = 16000 =>
         /\ ExpectedOffset = 4000
         /\ Len(Mixed) = 20000
         /\ \A i \in 4000..15999 :
              Mixed[i + 1] = Half(mixIn.samples1[i + 1] + mixIn.samples2[i - 4000 + 1])
         /\ \A i \in 16000..19999 : Mixed[i + 1] = mixIn.samples2[i - 4000 + 1]

\* The 16 kHz scenario has been mixed.
C6_Witness ==
  /\ mixOut # None
  /\ mixIn.sampleRate = 16000
  /\ Len(mixIn.samples1) = 16000
  /\ Len(mixIn.samples2) = 16000
  /\ Len(Mixed) = 20000

\* C7: with both inputs non-empty and an offset <= 0 the output is the
\* position-aligned mix: max(len1, len2) samples, the average where both
\* inputs have the index, else the sample of the input that has it.
C7_PositionAlignedFallback ==
  (mixOut # None /\ BothNonEmpty /\ ExpectedOffset <= 0) =>
    /\ Len(Mixed) = Max(Len(mixIn.samples1), Len(mixIn.samples2))
    /\ \A i \in DOMAIN Mixed :
         Mixed[i] =
           IF i <= Len(mixIn.samples1) /\ i <= Len(mixIn.samples2)
           THEN Half(mixIn.samples1[i] + mixIn.samples2[i])
           ELSE IF i <= Len(mixIn.samples1) THEN mixIn.samples1[i]
           ELSE mixIn.samples2[i]

\* A delay of a whole millisecond that truncates to zero samples, with inputs
\* of different lengths.
C7_Witness ==
  /\ mixOut # None
  /\ BothNonEmpty
  /\ DelayMs >= 1
  /\ ExpectedOffset = 0
  /\ Len(mixIn.samples1) < Len(mixIn.samples2)
  /\ Len(Mixed) = Len(mixIn.samples2)

\* C8: with both inputs non-empty the returned timestamp is the earlier of
\* the two input timestamps, in the offset branch and in the fallback.
C8_EarlierTimestamp ==
  (mixOut # None /\ BothNonEmpty) =>
    /\ mixOut.out.timestamp <= mixIn.timestamp1
    /\ mixOut.out.timestamp <= mixIn.timestamp2
    /\ mixOut.out.timestamp \in {mixIn.timestamp1, mixIn.timestamp2}

\* The second input is the earlier one and the offset is positive.
C8_Witness ==
  /\ mixOut # None
  /\ BothNonEmpty
  /\ mixIn.timestamp2 < mixIn.timestamp1
  /\ ExpectedOffset > 0
  /\ mixOut.out.timestamp = mixIn.timestamp2

\* C24: for every whole-millisecond delay D >= 0, sample rate R and channel
\* count C, the offset the mixer uses is D*R*C/1000 truncated to an integer:
\* the mix of two one-sample inputs D ms apart is as long as that offset says.
C24_OffsetIsTruncatedProduct ==
  (mixOut # None /\ BothNonEmpty /\ WholeMsDelay) =>
    /\ OffsetSamples(DelayMs, mixIn.sampleRate, mixIn.channels) = ExpectedOffset
    /\ Len(Mixed) = TotalLength(Len(BatchA), ExpectedOffset, Len(BatchB))

\* -------------------------------------------------------------- WAV writer
HeaderSize == 44
RiffOverhead == 36
FullScale == 32767

\* The size fields are written as uint32(n).  Every size of this model lies
\* in 0..2^31-1, where uint32(n) is n; larger values are out of TLC's reach.
UInt32(n) == IF n >= 0 THEN n ELSE n + 2147483647 + 2147483647 + 2

\* Go's conversion of a float to an integer: the fraction is dropped.
TruncDiv(a, b) == IF a >= 0 THEN a \div b ELSE -((-a) \div b)

\* int16(sample * 32767), a sample counting quarters: 4 is 1.0.
ToInt16(sample) == TruncDiv(sample * FullScale, 4)

NoFile == [exists |-> FALSE, riffSize |-> 0, dataSize |-> 0, payload |-> <<>>]

\* os.Stat(path).Size()
FileSize(f) == HeaderSize + 2 * Len(f.payload)

\* The header of WriteWAVHeader; only its two size fields change later.
WriteWAVHeader(f, dataSize) ==
  [f EXCEPT !.riffSize = UInt32(RiffOverhead + dataSize), !.dataSize = UInt32(dataSize)]

\* os.Create and WriteWAVHeader with DataSize 0; created is whether os.Create
\* succeeded.
InitializeWAVFile(f, created) ==
  IF ~created THEN [file |-> f, err |-> TRUE]
  ELSE [file |-> WriteWAVHeader([exists |-> TRUE, riffSize |-> 0, dataSize |-> 0,
                                 payload |-> <<>>], 0),
        err |-> FALSE]

UpdateWAVHeader_SameInBoth(f, dataSize, failure) ==
  IF failure = "riff" THEN [file |-> f, err |-> TRUE]
  ELSE IF failure = "data"
  THEN [file |-> [f EXCEPT !.riffSize = UInt32(dataSize)], err |-> TRUE]
  ELSE [file |-> [f EXCEPT !.riffSize = UInt32(dataSize), !.dataSize = UInt32(dataSize)],
        err |-> FALSE]

\* failure names the binary.Write that fails: "riff" (offset 4), "data"
\* (offset 40) or "none".
UpdateWAVHeader(f, dataSize, failure) ==
  IF failure = "riff" THEN [file |-> f, err |-> TRUE]
  ELSE IF failure = "data"
  THEN [file |-> [f EXCEPT !.riffSize = UInt32(RiffOverhead + dataSize)], err |-> TRUE]
  ELSE [file |-> [f EXCEPT !.riffSize = UInt32(RiffOverhead + dataSize),
                           !.dataSize = UInt32(dataSize)],
        err |-> FALSE]

\* The file is positioned at its end.  written is the number of samples
\* whose binary.Write succeeded; the next one, if there is one, fails.
WriteFloatSamples(f, samples, written) ==
  [file |-> [f EXCEPT !.payload = @ \o [i \in 1..written |-> ToInt16(samples[i])]],
   bytesWritten |-> 2 * written,
   err |-> written < Len(samples)]

AppendToWAVFile_CountsHeader(f, size, samples, io) ==
  IF Len(samples) = 0 THEN [file |-> f, currentFileSize |-> size, err |-> FALSE]
  ELSE IF ~io.open \/ ~io.seek THEN [file |-> f, currentFileSize |-> size, err |-> TRUE]
  ELSE LET w == WriteFloatSamples(f, samples, io.written)
       IN  IF w.err THEN [file |-> w.file, currentFileSize |-> size, err |-> TRUE]
           ELSE LET total == size + w.bytesWritten
                    u == UpdateWAVHeader(w.file, total, io.patch)
                IN  [file |-> u.file, currentFileSize |-> total, err |-> u.err]

\* Recorder.appendToWAVFile.  io says how the cycle's I/O goes: open and seek
\* succeed or not, how many samples get written, which header write fails.
AppendToWAVFile(f, size, samples, io) ==
  IF Len(samples) = 0 THEN [file |-> f, currentFileSize |-> size, err |-> FALSE]
  ELSE IF ~io.open \/ ~io.seek THEN [file |-> f, currentFileSize |-> size, err |-> TRUE]
  ELSE LET w == WriteFloatSamples(f, samples, io.written)
       IN  IF w.err THEN [file |-> w.file, currentFileSize |-> size, err |-> TRUE]
           ELSE LET total == size + w.bytesWritten
                    u == UpdateWAVHeader(w.file, total - HeaderSize, io.patch)
                IN  [file |-> u.file, currentFileSize |-> total, err |-> u.err]

NoCycles == [ok |-> 0, samples |-> 0, failed |-> 0, partial |-> 0, last |-> "none"]

\* How the I/O of one append cycle of n samples can go.
IOs(n) ==
  [open : BOOLEAN, seek : BOOLEAN, written : 0..n, patch : {"none", "riff", "data"}]

InitWav ==
  /\ file = NoFile
  /\ currentFileSize = 0
  /\ writable = FALSE
  /\ cycles = [NoCycles EXCEPT !.last = "new"]

ParkWav ==
  /\ file = NoFile
  /\ currentFileSize = 0
  /\ writable = FALSE
  /\ cycles = NoCycles

\* What StartRecording does to the file and the running total, lines 75-86.
InitializeFile(created) ==
  /\ cycles.last \in {"new", "stopped"}
  /\ LET r == InitializeWAVFile(file, created)
     IN  /\ file' = r.file
         /\ writable' = ~r.err
         /\ currentFileSize' = IF r.err THEN currentFileSize ELSE FileSize(r.file)
         /\ cycles' = IF r.err THEN [cycles EXCEPT !.last = "stopped"]
                      ELSE [NoCycles EXCEPT !.last = "init"]
  /\ UNCHANGED notWav

\* One append cycle of the writer task.
AppendCycle(samples, io) ==
  /\ writable
  /\ Len(file.payload) + Len(samples) <= MaxPayload
  /\ LET r == AppendToWAVFile(file, currentFileSize, samples, io)
     IN  /\ file' = r.file
         /\ currentFileSize' = r.currentFileSize
         /\ cycles' =
              IF Len(samples) = 0 THEN [cycles EXCEPT !.last = "empty"]
              ELSE IF r.err
              THEN [cycles EXCEPT !.failed = 1, !.last = "failed",
                                  !.partial = IF io.open /\ io.seek /\ io.written > 0
                                                 /\ io.written < Len(samples)
                                              THEN 1 ELSE @]
              ELSE [cycles EXCEPT !.ok = @ + 1,
                                  !.samples = @ + Len(samples), !.last = "ok"]
  /\ UNCHANGED <<writable, notWav>>

\* The writer task has exited; the recorder may be started again.
WriterExits ==
  /\ writable
  /\ cycles.last # "stopped"
  /\ writable' = FALSE
  /\ cycles' = [cycles EXCEPT !.last = "stopped"]
  /\ UNCHANGED <<file, currentFileSize, notWav>>

NextWav ==
  \/ \E created \in BOOLEAN : InitializeFile(created)
  \/ \E samples \in SeqsUpTo(SampleVals, MaxBatch) : \E io \in IOs(Len(samples)) :
       AppendCycle(samples, io)
  \/ WriterExits

\* C9: after InitializeWAVFile and N >= 0 append cycles, all successful, that
\* wrote S samples in total, the data-chunk size field is 2*S, the overall
\* size field is 36 + 2*S and currentFileSize is 44 + 2*S.
C9_HeaderRoundTrip ==
  (file.exists /\ cycles.failed = 0) =>
    /\ file.dataSize = 2 * cycles.samples
    /\ file.riffSize = 36 + 2 * cycles.samples
    /\ currentFileSize = 44 + 2 * cycles.samples

\* Two successful cycles and no failed one have written three samples or more.
C9_Witness ==
  /\ file.exists
  /\ cycles.last = "ok"
  /\ cycles.failed = 0
  /\ cycles.ok >= 2
  /\ cycles.samples >= 3
  /\ file.dataSize = 2 * cycles.samples

\* round(a/b) to the nearest integer, halves away from zero.
RoundDiv(a, b) ==
  IF a >= 0 THEN (2 * a + b) \div (2 * b) ELSE -((2 * (-a) + b) \div (2 * b))

\* C25: each floating sample s in [-1, 1] is stored as the 16-bit integer
\* round(s * 32767), to nearest and not toward zero, and each stored sample
\* adds exactly 2 bytes to the running total.
C25_StoredRounded ==
  /\ \A i \in DOMAIN file.payload :
       file.payload[i] \in {RoundDiv(s * FullScale, 4) : s \in SampleVals}
  /\ (writable /\ cycles.failed = 0) =>
       currentFileSize = HeaderSize + 2 * Len(file.payload)

\* C10: after every append cycle that completes successfully the header's
\* declared data size is the number of payload bytes in the file after the
\* 44-byte header, also when earlier cycles failed part-way.
C10_HeaderMatchesPayload ==
  cycles.last = "ok" => file.dataSize = 2 * Len(file.payload)

\* ---------------------------------------------------------------- Recorder
\* The Recorder of src/unnamed/part_002 with its goroutines: the thread that
\* calls StartRecording and StopRecording, the two capture callbacks, and the
\* audioWriterRoutine and saveTimerRoutine goroutines each successful
\* StartRecording launches.  A channel of bool is the number of values it
\* buffers.  The goroutines of one routine differ only in their position, so
\* writers and timers give the number of goroutines at each position.

ChanCap == 1
RecSampleRate == 1000
RecChannels == 1

WriterPcs == {"w_loop", "w_select", "w_process", "w_append"}
TimerPcs == {"t_loop", "t_post"}

\* One goroutine of the bag g moves from position from to position to, or
\* ends (to = "done"), or is launched (from = "go").
Move(g, from, to) ==
  [p \in DOMAIN g |-> g[p] + (IF p = to THEN 1 ELSE 0) - (IF p = from THEN 1 ELSE 0)]
CaptureIds == {"mic", "speaker"}

\* What the capture callbacks deliver: nothing, or one sample of the device.
CaptureSamples(c) == {<<>>, <<IF c = "mic" THEN 2 ELSE -4>>}
\* How an append cycle of n samples goes in the recorder spec: as a whole it
\* fails at the open or succeeds (SpecWAV has the cycles that fail part-way).
RecIOs(n) == {io \in IOs(n) : io.seek /\ io.written = n /\ io.patch = "none"}

\* The instant a callback stamps its samples with.
CaptureStamp(c) == IF c = "mic" THEN TicksPerMs ELSE 2 * TicksPerMs

NoCall == [pc |-> "idle", samples |-> <<>>, timestamp |-> ZeroTime]
\* The run so far: StartRecording calls and capture calls; the flush and stop
\* signals StopRecording has posted since the last StartRecording; the flush
\* requests the writers have taken since a StopRecording in progress posted
\* its own (-1: none has, 2: two or more); a call with samples was refused.
NoSession ==
  [starts |-> 0, adds |-> 0, flushPosts |-> 0, stopPosts |-> 0, sinceFinal |-> -1, refused |-> FALSE]

Select_NoDefault(ch, hasDefault) ==
  IF ch < ChanCap THEN [ch |-> ch + 1, blocked |-> FALSE]
  ELSE [ch |-> ch, blocked |-> TRUE]

\* A send on a channel: `ch <- true` alone (hasDefault FALSE) blocks while the
\* channel is full; inside a select with a default case it is dropped.
Select(ch, hasDefault) ==
  IF ch < ChanCap THEN [ch |-> ch + 1, blocked |-> FALSE]
  ELSE [ch |-> ch, blocked |-> ~hasDefault]

\* What control.prev becomes when a StopRecording returns: the call before it
\* was a StopRecording too, or not.
AfterStop(prev) ==
  IF prev \in {"StopRecording", "StopRecording again"} THEN "StopRecording again"
  ELSE "StopRecording"

AlreadyStopped_Never(active) == FALSE

\* The guard of StopRecording.
AlreadyStopped(active) == ~active

Accepts_Always(active, samples) == Len(samples) # 0

\* The guard of AddMicSamples and AddSpeakerSamples.
Accepts(active, samples) == ~(~active \/ Len(samples) = 0)

RECURSIVE Sum(_, _)
Sum(g, S) ==
  IF S = {} THEN 0
  ELSE LET p == CHOOSE q \in S : TRUE IN g[p] + Sum(g, S \ {p})

\* What the I/O of the file did last, kept in cycles when the run watches it
\* (cycles.last is not "none"); failed stays 1 after a failure.
Watched(c, outcome) ==
  IF c.last = "none" THEN c
  ELSE [c EXCEPT !.last = outcome, !.failed = IF outcome = "failed" THEN 1 ELSE @]

AfterAppend_ExitsOnError(err) == IF err THEN "done" ELSE "w_loop"

\* audioWriterRoutine: the error of appendToWAVFile is printed and the loop
\* goes on.
AfterAppend(err) == "w_loop"

\* The audioWriterRoutine goroutines that have not returned.
RunningWriters == Sum(writers, WriterPcs)

\* NewRecorder, and the file it names: not created yet.
NewRecorder ==
  /\ recordingActive = FALSE
  /\ writingActive = FALSE
  /\ writeSignal = 0
  /\ stopSignal = 0
  /\ writerWaitGroup = 0
  /\ micBuffer = NewBuffer(RecSampleRate, RecChannels)
  /\ speakerBuffer = NewBuffer(RecSampleRate, RecChannels)
  /\ mixedBuffer = NewBuffer(RecSampleRate, RecChannels)
  /\ control = [pc |-> "idle", prev |-> "NewRecorder"]
  /\ writers = [p \in WriterPcs |-> 0]
  /\ timers = [p \in TimerPcs |-> 0]
  /\ capture = [c \in CaptureIds |-> NoCall]
  /\ file = NoFile
  /\ currentFileSize = 0
  /\ writable = FALSE

InitRec ==
  /\ NewRecorder
  /\ session = NoSession
  /\ cycles = NoCycles

\* A run with one StartRecording in which the I/O of the file is watched:
\* cycles.failed and cycles.last are kept.
InitRecIO ==
  /\ NewRecorder
  /\ session = [NoSession EXCEPT !.starts = MaxStarts - 1]
  /\ cycles = [NoCycles EXCEPT !.last = "new"]

ParkRec ==
  /\ recordingActive = FALSE
  /\ writingActive = FALSE
  /\ writeSignal = 0
  /\ stopSignal = 0
  /\ writerWaitGroup = 0
  /\ micBuffer = NewBuffer(RecSampleRate, RecChannels)
  /\ speakerBuffer = NewBuffer(RecSampleRate, RecChannels)
  /\ mixedBuffer = NewBuffer(RecSampleRate, RecChannels)
  /\ control = [pc |-> "parked", prev |-> "none"]
  /\ writers = [p \in WriterPcs |-> 0]
  /\ timers = [p \in TimerPcs |-> 0]
  /\ capture = [c \in CaptureIds |-> [NoCall EXCEPT !.pc = "parked"]]
  /\ session = NoSession

\* StartRecording, the whole call.  created is whether InitializeWAVFile
\* succeeds; the goroutines are launched only then.
StartRecording(created) ==
  /\ control.pc = "idle"
  /\ session.starts < MaxStarts
  /\ recordingActive' = TRUE
  /\ writingActive' = TRUE
  /\ LET r == InitializeWAVFile(file, created)
     IN  /\ file' = r.file
         /\ IF r.err
            THEN UNCHANGED <<currentFileSize, writerWaitGroup, writers, timers>>
            ELSE /\ currentFileSize' = FileSize(r.file)
                 /\ writerWaitGroup' = writerWaitGroup + 1
                 /\ writers' = Move(writers, "go", "w_loop")
                 /\ timers' = Move(timers, "go", "t_loop")
         /\ cycles' = Watched(cycles, IF r.err THEN "failed" ELSE "init")
  /\ control' = [pc |-> "idle", prev |-> "StartRecording"]
  /\ session' = [session EXCEPT !.starts = @ + 1, !.flushPosts = 0, !.stopPosts = 0,
                                !.sinceFinal = -1]
  /\ UNCHANGED <<writeSignal, stopSignal, micBuffer, speakerBuffer, mixedBuffer,
                 capture, writable, notWatched>>

\* StopRecording up to its first send: the early return, or the flag.
StopRecording ==
  /\ control.pc = "idle"
  /\ IF AlreadyStopped(recordingActive)
     THEN /\ control' = [pc |-> "idle", prev |-> AfterStop(control.prev)]
          /\ UNCHANGED recordingActive
     ELSE /\ recordingActive' = FALSE
          /\ control' = [control EXCEPT !.pc = "stop_flush"]
  /\ UNCHANGED session
  /\ UNCHANGED <<writingActive, writeSignal, stopSignal, writerWaitGroup, micBuffer,
                 speakerBuffer, mixedBuffer, writers, timers, capture, file,
                 currentFileSize, notRec>>

\* r.writeSignal <- true, and the Sleep that follows it.
StopPostsFlush ==
  /\ control.pc = "stop_flush"
  /\ LET s == Select(writeSignal, FALSE)
     IN  /\ ~s.blocked
         /\ writeSignal' = s.ch
  /\ control' = [control EXCEPT !.pc = "stop_stop"]
  /\ session' = [session EXCEPT !.flushPosts = @ + 1, !.sinceFinal = 0]
  /\ UNCHANGED <<recordingActive, writingActive, stopSignal, writerWaitGroup, micBuffer,
                 speakerBuffer, mixedBuffer, writers, timers, capture, file,
                 currentFileSize, notRec>>

\* r.stopSignal <- true
StopPostsStop ==
  /\ control.pc = "stop_stop"
  /\ LET s == Select(stopSignal, FALSE)
     IN  /\ ~s.blocked
         /\ stopSignal' = s.ch
  /\ control' = [control EXCEPT !.pc = "stop_wait"]
  /\ session' = [session EXCEPT !.stopPosts = @ + 1]
  /\ UNCHANGED <<recordingActive, writingActive, writeSignal, writerWaitGroup, micBuffer,
                 speakerBuffer, mixedBuffer, writers, timers, capture, file,
                 currentFileSize, notRec>>

\* r.writerWaitGroup.Wait() and the return.
StopReturns ==
  /\ control.pc = "stop_wait"
  /\ writerWaitGroup = 0
  /\ control' = [pc |-> "idle", prev |-> AfterStop(control.prev)]
  /\ session' = [session EXCEPT !.sinceFinal = -1]
  /\ UNCHANGED <<recordingActive, writingActive, writeSignal, stopSignal, writerWaitGroup,
                 micBuffer, speakerBuffer, mixedBuffer, writers, timers, capture, file,
                 currentFileSize, notRec>>

\* audioWriterRoutine: the loop condition; the deferred Done when it fails.
WriterLoop ==
  /\ writers["w_loop"] > 0
  /\ IF writingActive
     THEN /\ writers' = Move(writers, "w_loop", "w_select")
          /\ UNCHANGED writerWaitGroup
     ELSE /\ writers' = Move(writers, "w_loop", "done")
          /\ writerWaitGroup' = writerWaitGroup - 1
  /\ UNCHANGED <<recordingActive, writingActive, writeSignal, stopSignal, micBuffer,
                 speakerBuffer, mixedBuffer, control, timers, capture, session, file,
                 currentFileSize, notRec>>

\* case <-r.writeSignal.  When both channels hold a value the select takes
\* either case.
WriterTakesFlush ==
  /\ writers["w_select"] > 0
  /\ writeSignal > 0
  /\ writeSignal' = writeSignal - 1
  /\ writers' = Move(writers, "w_select", "w_process")
  /\ session' = [session EXCEPT !.sinceFinal = IF @ \in {0, 1} THEN @ + 1 ELSE @]
  /\ UNCHANGED <<recordingActive, writingActive, stopSignal, writerWaitGroup, micBuffer,
                 speakerBuffer, mixedBuffer, control, timers, capture, file,
                 currentFileSize, notRec>>

\* case <-r.stopSignal, with the deferred Done.
WriterTakesStop ==
  /\ writers["w_select"] > 0
  /\ stopSignal > 0
  /\ stopSignal' = stopSignal - 1
  /\ writingActive' = FALSE
  /\ writerWaitGroup' = writerWaitGroup - 1
  /\ writers' = Move(writers, "w_select", "done")
  /\ UNCHANGED <<recordingActive, writeSignal, micBuffer, speakerBuffer, mixedBuffer,
                 control, timers, capture, session, file, currentFileSize, notRec>>

\* processPendingAudio: both Gets, the mix, and the Add on the mixed buffer.
ProcessPendingAudio ==
  /\ writers["w_process"] > 0
  /\ LET mic == BufferGet(micBuffer)
         speaker == BufferGet(speakerBuffer)
         m == TimeSyncMixAudioSamples(mic.samples, mic.timestamp, speaker.samples,
                                      speaker.timestamp, RecSampleRate, RecChannels)
     IN  /\ micBuffer' = mic.buffer
         /\ speakerBuffer' = speaker.buffer
         /\ mixedBuffer' = IF Len(m.samples) > 0
                           THEN BufferAdd(mixedBuffer, m.samples, m.timestamp)
                           ELSE mixedBuffer
  /\ writers' = Move(writers, "w_process", "w_append")
  /\ UNCHANGED <<recordingActive, writingActive, writeSignal, stopSignal, writerWaitGroup,
                 control, timers, capture, session, file, currentFileSize, notRec>>

\* r.mixedBuffer.Get() and, if it returned samples, appendToWAVFile; an error
\* is logged and the loop goes on.
WriterAppends(io) ==
  /\ writers["w_append"] > 0
  /\ LET r == BufferGet(mixedBuffer)
         a == AppendToWAVFile(file, currentFileSize, r.samples, io)
     IN  /\ mixedBuffer' = r.buffer
         /\ file' = a.file
         /\ currentFileSize' = a.currentFileSize
         /\ cycles' = Watched(cycles, IF Len(r.samples) = 0 THEN "empty"
                                      ELSE IF a.err THEN "failed" ELSE "ok")
         /\ writers' = Move(writers, "w_append", AfterAppend(a.err))
  /\ UNCHANGED <<recordingActive, writingActive, writeSignal, stopSignal, writerWaitGroup,
                 micBuffer, speakerBuffer, control, timers, capture, session, writable,
                 notWatched>>

\* saveTimerRoutine: the loop test, the Sleep and the test that follows it.
\* Both tests read recordingActive and either ends the goroutine; nothing else
\* happens between them, so they are one read here, made when the Sleep ends.
TimerWakes ==
  /\ timers["t_loop"] > 0
  /\ timers' = Move(timers, "t_loop", IF ~recordingActive THEN "done" ELSE "t_post")
  /\ UNCHANGED <<recordingActive, writingActive, writeSignal, stopSignal, writerWaitGroup,
                 micBuffer, speakerBuffer, mixedBuffer, control, writers, capture, session,
                 file, currentFileSize, notRec>>

\* saveTimerRoutine: select { case r.writeSignal <- true: default: }
TimerPosts ==
  /\ timers["t_post"] > 0
  /\ LET s == Select(writeSignal, TRUE)
     IN  /\ ~s.blocked
         /\ writeSignal' = s.ch
  /\ timers' = Move(timers, "t_post", "t_loop")
  /\ UNCHANGED <<recordingActive, writingActive, stopSignal, writerWaitGroup,
                 micBuffer, speakerBuffer, mixedBuffer, control, writers, capture, session,
                 file, currentFileSize, notRec>>

\* AddMicSamples / AddSpeakerSamples: the guard.
AddSamples(c, samples, timestamp) ==
  /\ capture[c].pc = "idle"
  /\ session.adds < MaxRecAdds
  /\ capture' = [capture EXCEPT ![c] =
                   IF Accepts(recordingActive, samples)
                   THEN [pc |-> "add", samples |-> samples, timestamp |-> timestamp]
                   ELSE NoCall]
  /\ session' = [session EXCEPT !.adds = @ + 1,
                                !.refused = @ \/ (~recordingActive /\ Len(samples) > 0)]
  /\ UNCHANGED <<recordingActive, writingActive, writeSignal, stopSignal, writerWaitGroup,
                 micBuffer, speakerBuffer, mixedBuffer, control, writers, timers, file,
                 currentFileSize, notRec>>

\* AddMicSamples / AddSpeakerSamples: the Add on the caller's buffer.
AddSamplesAdds(c) ==
  /\ capture[c].pc = "add"
  /\ IF c = "mic"
     THEN /\ micBuffer' = BufferAdd(micBuffer, capture[c].samples, capture[c].timestamp)
          /\ UNCHANGED speakerBuffer
     ELSE /\ speakerBuffer' = BufferAdd(speakerBuffer, capture[c].samples,
                                        capture[c].timestamp)
          /\ UNCHANGED micBuffer
  /\ capture' = [capture EXCEPT ![c] = NoCall]
  /\ UNCHANGED <<recordingActive, writingActive, writeSignal, stopSignal, writerWaitGroup,
                 mixedBuffer, control, writers, timers, session, file, currentFileSize,
                 notRec>>

NextRec ==
  \/ \E created \in BOOLEAN : StartRecording(created)
  \/ StopRecording
  \/ StopPostsFlush
  \/ StopPostsStop
  \/ StopReturns
  \/ WriterLoop
  \/ WriterTakesFlush
  \/ WriterTakesStop
  \/ ProcessPendingAudio
  \/ \E io \in RecIOs(Len(mixedBuffer.samples)) : WriterAppends(io)
  \/ TimerWakes
  \/ TimerPosts
  \/ \E c \in CaptureIds : \E samples \in CaptureSamples(c) :
       AddSamples(c, samples, CaptureStamp(c))
  \/ \E c \in CaptureIds : AddSamplesAdds(c)

\* C11 (recorder): writeSignal never holds more than one flush request, and a
\* saveTimerRoutine that is at its post can always take the step: with a
\* request pending the post is dropped and the goroutine goes on.
C11_TimerPostCoalesces ==
  /\ writeSignal <= ChanCap
  /\ timers["t_post"] > 0 => ENABLED TimerPosts

\* A saveTimerRoutine is at its post while a flush request is pending.
C11_TimerWitness ==
  /\ writeSignal = ChanCap
  /\ timers["t_post"] > 0

\* The recorder's state as its two flags give it.
RecState ==
  IF ~recordingActive /\ ~writingActive THEN "Idle"
  ELSE IF recordingActive /\ writingActive THEN "Recording"
  ELSE IF ~recordingActive /\ writingActive THEN "Draining"
  ELSE "other"

InStopRecording == control.pc \in {"stop_flush", "stop_stop", "stop_wait"}

\* A step in which an audioWriterRoutine takes the stop signal.
WriterReceivesStop == writers'["w_select"] < writers["w_select"] /\ stopSignal' < stopSignal

\* C12: a writer task that receives the stop signal has performed the
\* drain-mix-append sequence exactly once since StopRecording asked for the
\* final flush, and exits only then.
C12_FinalFlushBeforeExit ==
  [][WriterReceivesStop => session.sinceFinal = 1]_vars

\* C13: StopRecording has posted the final flush signal when it posts the stop
\* signal, and once it has returned both flags are false and no writer task
\* is left to append to the file or patch its header.
C13_StopReturnsIdle ==
  /\ control.pc \in {"stop_stop", "stop_wait"} => session.flushPosts >= 1
  /\ session.stopPosts <= session.flushPosts
  /\ (control.pc = "idle" /\ control.prev \in {"StopRecording", "StopRecording again"}) =>
       (RecState = "Idle" /\ RunningWriters = 0)

\* C14: a StopRecording that follows a StopRecording returns at its guard, so
\* it meets no blocking send, and all the StopRecording calls since the last
\* StartRecording post at most one flush signal and one stop signal.
C14_IdempotentStop ==
  /\ session.flushPosts <= 1
  /\ session.stopPosts <= 1
  /\ InStopRecording => control.prev \notin {"StopRecording", "StopRecording again"}

\* StopRecording stopped a running recorder and was called once more.
C14_Witness ==
  /\ control = [pc |-> "idle", prev |-> "StopRecording again"]
  /\ session.flushPosts = 1
  /\ session.stopPosts = 1

\* C15: a capture call made while recordingActive is false returns without
\* touching any buffer; a call made while it is true appends its samples to
\* its own buffer and leaves the other two buffers as they are.
C15_AddOnlyWhenRecording ==
  [][/\ (session'.adds # session.adds /\ ~recordingActive) =>
          /\ UNCHANGED capture
          /\ UNCHANGED <<micBuffer, speakerBuffer, mixedBuffer>>
     /\ (capture["mic"].pc = "add" /\ capture'["mic"].pc = "idle") =>
          /\ micBuffer'.samples = micBuffer.samples \o capture["mic"].samples
          /\ UNCHANGED <<speakerBuffer, mixedBuffer>>
     /\ (capture["speaker"].pc = "add" /\ capture'["speaker"].pc = "idle") =>
          /\ speakerBuffer'.samples = speakerBuffer.samples \o capture["speaker"].samples
          /\ UNCHANGED <<micBuffer, mixedBuffer>>]_vars

\* While Draining a call with samples has returned at the guard, and an
\* earlier call has put the speaker's sample in the speaker buffer only.
C15_Witness ==
  /\ RecState = "Draining"
  /\ session.refused
  /\ speakerBuffer.samples = <<-4>>
  /\ micBuffer.samples = <<>>
  /\ mixedBuffer.samples = <<>>
  /\ \A c \in CaptureIds : capture[c].pc = "idle"

\* A step in which an append cycle of a writer task ends with an I/O error.
AppendFails == writers'["w_append"] < writers["w_append"] /\ cycles'.last = "failed"

\* C21: an append cycle that ends with an I/O error leaves its writer task in
\* the loop and writingActive as it was, and a writer task that is in the
\* loop goes on to the select, where a pending flush request is taken and
\* leads to the drain, the mix and the append.
C21_WriterSurvivesIOError ==
  [][/\ AppendFails =>
          /\ writers'["w_loop"] = writers["w_loop"] + 1
          /\ RunningWriters' = RunningWriters
          /\ UNCHANGED <<writingActive, writerWaitGroup>>
     /\ (cycles.failed = 1 /\ writeSignal' < writeSignal) =>
          writers'["w_process"] = writers["w_process"] + 1
     /\ (cycles.failed = 1 /\ writers'["w_process"] < writers["w_process"]) =>
          writers'["w_append"] = writers["w_append"] + 1
     /\ (cycles.failed = 1 /\ writers'["w_loop"] < writers["w_loop"] /\ writingActive) =>
          writers'["w_select"] = writers["w_select"] + 1]_vars

\* After an append cycle failed, a later flush request led to a cycle that
\* wrote its samples.
C21_Witness ==
  /\ cycles.failed = 1
  /\ cycles.last = "ok"
  /\ Len(file.payload) > 0
  /\ writers["w_loop"] = 1

\* C26: when StopRecording returns and no I/O error occurred, every sample
\* the capture calls accepted has been appended to the file: no call is still
\* on its way to a buffer, and the mic, speaker and mixed buffers are empty.
C26_StopDrainsEverything ==
  (/\ control = [pc |-> "idle", prev |-> "StopRecording"]
   /\ session.stopPosts = 1
   /\ cycles.failed = 0) =>
    /\ \A c \in CaptureIds : capture[c].pc = "idle"
    /\ micBuffer.samples = <<>>
    /\ speakerBuffer.samples = <<>>
    /\ mixedBuffer.samples = <<>>

\* C16: at most one writer task is running at any time.
C16_SingleWriter == RunningWriters <= 1

\* C17: the recorder's state changes only from Idle to Recording in
\* StartRecording, from Recording to Draining in StopRecording, and from
\* Draining to Idle when a writer task exits.
C17_OnlyThreeTransitions ==
  [][RecState' # RecState =>
       \/ /\ RecState = "Idle" /\ RecState' = "Recording"
          /\ control'.prev = "StartRecording"
       \/ /\ RecState = "Recording" /\ RecState' = "Draining"
          /\ control.pc = "idle" /\ control'.pc = "stop_flush"
       \/ /\ RecState = "Draining" /\ RecState' = "Idle"
          /\ RunningWriters' < RunningWriters]_vars

\* ------------------------------------------------- transcript segments
\* The segment accumulator and the transcript file of the Transcriber of
\* src/unnamed/part_000, used by one caller: processAudioBatch with the
\* addSegments that follows it, and writeSegments.  A text is a sequence of
\* characters.  A segment's startTime counts hundredths of a second, the unit
\* of the engine's Start, so the division by 100.0 keeps every value apart.

Second == 1000 * TicksPerMs
HalfSecond == 500 * TicksPerMs

Sources == {"SourceMic", "SourceSpeaker"}
Texts == {<<>>, <<" ", " ">>, <<" ", "a", " ">>}

\* The windows of a run, half a second apart: the source and the capture
\* timestamp that processAudioLoop passes to processAudioBatch.
Windows ==
  {[source |-> "SourceMic", timestamp |-> HalfSecond],
   [source |-> "SourceSpeaker", timestamp |-> 2 * HalfSecond],
   [source |-> "SourceMic", timestamp |-> 3 * HalfSecond]}

\* What the engine holds after a Process: its segments, each a text and a
\* Start, the segments one second long and one after the other; err is
\* whether Process failed.
EngineResults(n) ==
  {[err |-> FALSE, segments |-> [i \in 1..Len(texts) |->
                                  [text |-> texts[i], start |-> 100 * (i - 1)]]] :
     texts \in SeqsUpTo(Texts, n)}
    \cup {[err |-> TRUE, segments |-> <<>>]}

IsSpace(ch) == ch \in {" ", "\t", "\n", "\r"}

RECURSIVE TrimLeft(_)
TrimLeft(text) ==
  IF Len(text) > 0 /\ IsSpace(Head(text)) THEN TrimLeft(Tail(text)) ELSE text

RECURSIVE TrimRight(_)
TrimRight(text) ==
  IF Len(text) > 0 /\ IsSpace(text[Len(text)])
  THEN TrimRight(SubSeq(text, 1, Len(text) - 1))
  ELSE text

TrimSpace_Nothing(text) == text

\* strings.TrimSpace
TrimSpace(text) == TrimRight(TrimLeft(text))

StartTime(start) == start

RECURSIVE ExtractFrom(_, _, _, _)
ExtractFrom(engine, i, source, timestamp) ==
  IF i > Len(engine) THEN <<>>
  ELSE LET segment == engine[i]
           rest == ExtractFrom(engine, i + 1, source, timestamp)
       IN  IF Len(TrimSpace(segment.text)) > 0
           THEN <<[text |-> segment.text, startTime |-> StartTime(segment.start),
                   source |-> source, timestamp |-> timestamp]>> \o rest
           ELSE rest

\* processAudioBatch: result is what Process returns and leaves in the
\* context.
ProcessAudioBatch(result, source, timestamp) ==
  IF result.err THEN [segments |-> <<>>, err |-> TRUE]
  ELSE [segments |-> ExtractFrom(result.segments, 1, source, timestamp), err |-> FALSE]

\* addSegments
AddSegments(acc, newSegments) == acc \o newSegments

Less_TimestampOnly(a, b) == a.timestamp < b.timestamp

\* The less function writeSegments gives to sort.Slice.
Less(a, b) ==
  IF a.timestamp - b.timestamp < Second /\ b.timestamp - a.timestamp < Second
  THEN a.startTime < b.startTime
  ELSE a.timestamp < b.timestamp

Swap(s, i, j) == [s EXCEPT ![i] = s[j], ![j] = s[i]]

RECURSIVE InsertAt(_, _)
InsertAt(s, j) ==
  IF j > 1 /\ Less(s[j], s[j - 1]) THEN InsertAt(Swap(s, j, j - 1), j - 1) ELSE s

RECURSIVE SortFrom(_, _)
SortFrom(s, i) == IF i > Len(s) THEN s ELSE SortFrom(InsertAt(s, i), i + 1)

\* sort.Slice on fewer than 12 elements: the insertion sort of package sort.
SortSlice(s) == SortFrom(s, 2)

WriteSegments_LeavesAccumulator(acc, lines) ==
  IF Len(acc) = 0 THEN [segments |-> acc, transcript |-> lines, written |-> <<>>]
  ELSE [segments |-> acc, transcript |-> lines \o SortSlice(acc),
        written |-> SortSlice(acc)]

\* writeSegments: the drain, the sort and the lines appended to the file.
WriteSegments(acc, lines) ==
  IF Len(acc) = 0 THEN [segments |-> acc, transcript |-> lines, written |-> <<>>]
  ELSE [segments |-> <<>>, transcript |-> lines \o SortSlice(acc),
        written |-> SortSlice(acc)]

InitSeg ==
  /\ segments = <<>>
  /\ transcript = <<>>
  /\ trLast = [None EXCEPT !.op = "NewTranscriber"]

ParkSeg ==
  /\ segments = <<>>
  /\ transcript = <<>>
  /\ trLast = None

\* One polling cycle from the engine call on, lines 239-245: processAudioBatch
\* and, if it returned segments, addSegments.
ProcessAndAdd(result, source, timestamp) ==
  /\ Len(segments) + Len(transcript) + Len(result.segments) <= MaxSegments
  /\ LET r == ProcessAudioBatch(result, source, timestamp)
     IN  /\ segments' = IF ~r.err /\ Len(r.segments) > 0
                        THEN AddSegments(segments, r.segments)
                        ELSE segments
         /\ trLast' = [op |-> "processAudioBatch", result |-> result, source |-> source,
                       timestamp |-> timestamp, before |-> segments]
  /\ UNCHANGED <<transcript, notSeg>>

\* writeSegments, the whole call.
WriteSegmentsCall ==
  /\ trLast.op # "writeSegments"
  /\ LET r == WriteSegments(segments, transcript)
     IN  /\ segments' = r.segments
         /\ transcript' = r.transcript
         /\ trLast' = [op |-> "writeSegments", batch |-> segments, lines |-> r.written]
  /\ UNCHANGED notSeg

NextSeg ==
  \/ \E result \in EngineResults(MaxEngineSegs) : \E window \in Windows :
       ProcessAndAdd(result, window.source, window.timestamp)
  \/ WriteSegmentsCall

\* A text that is empty or holds white space only.
Blank(text) == \A i \in 1..Len(text) : text[i] \in {" ", "\t", "\n", "\r"}

Abs(x) == IF x < 0 THEN -x ELSE x

\* Closer than one second, as writeSegments tests it.
Close(a, b) == Abs(a.timestamp - b.timestamp) < Second

\* "Closer than one second" is transitive on the batch: its timestamps fall
\* into groups at least one second apart.
Clustered(batch) ==
  \A i, j, k \in 1..Len(batch) :
    (Close(batch[i], batch[j]) /\ Close(batch[j], batch[k])) => Close(batch[i], batch[k])

C20_BlankSegmentsDropped ==
  /\ \A i \in 1..Len(segments) : ~Blank(segments[i].text)
  /\ \A i \in 1..Len(transcript) : ~Blank(transcript[i].text)
  /\ (trLast.op = "processAudioBatch" /\ ~trLast.result.err) =>
       LET kept == SelectSeq(trLast.result.segments, LAMBDA r : ~Blank(r.text))
           n == Len(trLast.before)
       IN  /\ Len(segments) = n + Len(kept)
           /\ SubSeq(segments, 1, n) = trLast.before
           /\ \A i \in 1..Len(kept) :
                /\ segments[n + i].text = kept[i].text
                /\ segments[n + i].startTime = kept[i].start
                /\ segments[n + i].source = trLast.source
                /\ segments[n + i].timestamp = trLast.timestamp

\* The engine returned a blank segment and then a non-blank one, and only the
\* second is behind the segment that was there.
C20_Witness ==
  /\ trLast.op = "processAudioBatch"
  /\ Len(trLast.result.segments) = 2
  /\ Blank(trLast.result.segments[1].text)
  /\ ~Blank(trLast.result.segments[2].text)
  /\ Len(trLast.before) = 1
  /\ Len(segments) = 2
  /\ segments[2].startTime = 100

\* ------------------------------------------------------------ Transcriber
\* The Transcriber with its goroutines: the thread that calls Start and Stop,
\* the writeRoutine goroutines (routines gives the number at each position)
\* and one processAudioLoop per source.  Start is called only when the loops
\* of the Start before it have returned.  An engine call yields at most
\* one segment here, and the windows the loops peek carry timestamps that
\* never go back.

SegmentThreshold == 10
RoutinePcs == {"r_loop", "r_select"}
PeekStamps == {HalfSecond, 4 * HalfSecond}

\* The fewest samples of a window that is given to the engine, and what a
\* loop finds in its buffer: nothing, a window one sample too short, or a
\* window that is long enough, with one of the timestamps.
MinSamples == 1000
PeekedWindows ==
  {[timestamp |-> ZeroTime, size |-> 0],
   [timestamp |-> 4 * HalfSecond, size |-> MinSamples - 1]}
    \cup {[timestamp |-> t, size |-> MinSamples] : t \in PeekStamps}

EnoughAudio_Any(isEmpty, n) == TRUE

\* processAudioLoop: neither buffer.IsEmpty() nor len(audioData) < 1000.
EnoughAudio(isEmpty, n) == ~isEmpty /\ ~(n < MinSamples)

\* What an engine call leaves in the context here: an error, one blank
\* segment, or one segment with a word.
LoopResults == {r \in EngineResults(1) : r.err \/ (Len(r.segments) = 1 /\ Len(r.segments[1].text) > 0)}

NoLoop == [pc |-> "none", timestamp |-> ZeroTime, size |-> 0, found |-> <<>>]
\* The context: what its last Process left in it and, in the runs that keep
\* track of it (window is not NoWindow), the window that Process was given,
\* as its source and timestamp.
NoWindow == [source |-> "none", timestamp |-> ZeroTime]
NotYet == [source |-> "not yet", timestamp |-> ZeroTime]
NoContext == [err |-> FALSE, segments |-> <<>>, window |-> NoWindow]

\* t.context.Process(audioData, nil)
Process(c, result, source, timestamp) ==
  [err |-> result.err, segments |-> result.segments,
   window |-> IF c.window = NoWindow THEN NoWindow
              ELSE [source |-> source, timestamp |-> timestamp]]
\* The run so far: the engine calls, the timestamp of the last window, whether
\* a post on writeSignal was dropped, and the segments given to addSegments
\* (how many times each).
NoTrSession == [engineCalls |-> 0, lastPeek |-> ZeroTime, dropped |-> FALSE, added |-> EmptyBag]

\* How many times each element occurs in a sequence.
BagOfSeq(s) ==
  [x \in {s[i] : i \in DOMAIN s} |-> Cardinality({i \in DOMAIN s : s[i] = x})]

LoopRunning(s) == loops[s].pc \notin {"none", "done"}

NewTranscriber ==
  /\ isRunning = FALSE
  /\ trStopSignal = 0
  /\ trWriteSignal = 0
  /\ loops = [s \in Sources |-> NoLoop]
  /\ routines = [p \in RoutinePcs |-> 0]
  /\ trControl = "idle"
  /\ trSession = NoTrSession
  /\ segments = <<>>
  /\ transcript = <<>>
  /\ trLast = [None EXCEPT !.op = "NewTranscriber"]

InitTr ==
  /\ NewTranscriber
  /\ context = NoContext

\* A run that keeps track of the window each Process was given.
InitTrWindows ==
  /\ NewTranscriber
  /\ context = [NoContext EXCEPT !.window = NotYet]

ParkTr ==
  /\ isRunning = FALSE
  /\ trStopSignal = 0
  /\ trWriteSignal = 0
  /\ context = NoContext
  /\ loops = [s \in Sources |-> NoLoop]
  /\ routines = [p \in RoutinePcs |-> 0]
  /\ trControl = "parked"
  /\ trSession = NoTrSession

\* What Start returned last, kept by a run that starts from NoReturn.
NoReturn == [op |-> "no call yet"]

Returned(before, op, err) ==
  IF before.op = "NewTranscriber" THEN before ELSE [op |-> op, err |-> err]

\* A run that keeps track of what the last Start returned.
InitTrCalls ==
  /\ isRunning = FALSE
  /\ trStopSignal = 0
  /\ trWriteSignal = 0
  /\ context = NoContext
  /\ loops = [s \in Sources |-> NoLoop]
  /\ routines = [p \in RoutinePcs |-> 0]
  /\ trControl = "idle"
  /\ trSession = NoTrSession
  /\ segments = <<>>
  /\ transcript = <<>>
  /\ trLast = NoReturn

\* `if t.isRunning` of Start.
AlreadyRunning_Never(running) == FALSE
AlreadyRunning(running) == running

\* Start up to `go t.writeRoutine()`; the error return when already running.
\* When the transcriber is not running, Start is called only after the loops
\* of the Start before it have returned.
TranscriberStart ==
  /\ trControl = "idle"
  /\ isRunning \/ \A s \in Sources : ~LoopRunning(s)
  /\ IF AlreadyRunning(isRunning)
     THEN /\ trLast' = Returned(trLast, "Start", TRUE)
          /\ UNCHANGED <<routines, trControl>>
     ELSE /\ Sum(routines, RoutinePcs) < MaxRoutines
          /\ routines' = Move(routines, "go", "r_loop")
          /\ trControl' = "start_running"
          /\ UNCHANGED trLast
  /\ UNCHANGED <<isRunning, trStopSignal, trWriteSignal, context, loops, trSession, segments,
                 transcript, notTr>>

\* Start from `t.isRunning = true` on: the flag and the two loops.
TranscriberStartRuns ==
  /\ trControl = "start_running"
  /\ isRunning' = TRUE
  /\ loops' = [s \in Sources |-> [NoLoop EXCEPT !.pc = "l_loop"]]
  /\ trControl' = "idle"
  /\ trLast' = Returned(trLast, "Start", FALSE)
  /\ UNCHANGED <<trStopSignal, trWriteSignal, context, routines, trSession, segments,
                 transcript, notTr>>

\* Stop up to `t.isRunning = false`; the return when not running.
TranscriberStop ==
  /\ trControl = "idle"
  /\ isRunning
  /\ LET s == Select(trStopSignal, FALSE)
     IN  /\ ~s.blocked
         /\ trStopSignal' = s.ch
  /\ isRunning' = FALSE
  /\ trControl' = "stop_write"
  /\ UNCHANGED <<trWriteSignal, context, loops, routines, trSession, segVars, notTr>>

\* Stop: t.writeSignal <- true
TranscriberStopPostsWrite ==
  /\ trControl = "stop_write"
  /\ LET s == Select(trWriteSignal, FALSE)
     IN  /\ ~s.blocked
         /\ trWriteSignal' = s.ch
  /\ trControl' = "idle"
  /\ UNCHANGED <<isRunning, trStopSignal, context, loops, routines, trSession, segVars,
                 notTr>>

\* Close has closed the transcript file.
FileClosed == trControl = "closed"

\* The transcript after a writeSegments with result r: WriteString on a
\* closed file fails, and each of the lines is skipped.
Written(lines, r, closed) == IF closed THEN lines ELSE r.transcript

\* Close: its call of Stop up to `t.isRunning = false`, or Stop's return when
\* not running.
TranscriberClose ==
  /\ trControl = "idle"
  /\ IF isRunning
     THEN /\ LET s == Select(trStopSignal, FALSE)
             IN  /\ ~s.blocked
                 /\ trStopSignal' = s.ch
          /\ isRunning' = FALSE
          /\ trControl' = "close_stop_write"
     ELSE /\ trControl' = "close_write"
          /\ UNCHANGED <<isRunning, trStopSignal>>
  /\ UNCHANGED <<trWriteSignal, context, loops, routines, trSession, segVars, notTr>>

\* Close: t.writeSignal <- true of its Stop.
TranscriberClosePostsWrite ==
  /\ trControl = "close_stop_write"
  /\ LET s == Select(trWriteSignal, FALSE)
     IN  /\ ~s.blocked
         /\ trWriteSignal' = s.ch
  /\ trControl' = "close_write"
  /\ UNCHANGED <<isRunning, trStopSignal, context, loops, routines, trSession, segVars,
                 notTr>>

\* Close: writeSegments and transcriptFile.Close.
TranscriberCloseWrites ==
  /\ trControl = "close_write"
  /\ LET r == WriteSegments(segments, transcript)
     IN  /\ segments' = r.segments
         /\ transcript' = r.transcript
  /\ trControl' = "closed"
  /\ UNCHANGED <<isRunning, trStopSignal, trWriteSignal, context, loops, routines,
                 trSession, trLast, notTr>>

\* writeRoutine: the loop condition.
RoutineLoop ==
  /\ routines["r_loop"] > 0
  /\ routines' = Move(routines, "r_loop", IF isRunning THEN "r_select" ELSE "done")
  /\ UNCHANGED <<isRunning, trStopSignal, trWriteSignal, context, loops, trControl,
                 trSession, segVars, notTr>>

\* writeRoutine: case <-t.stopSignal
RoutineTakesStop ==
  /\ routines["r_select"] > 0
  /\ trStopSignal > 0
  /\ trStopSignal' = trStopSignal - 1
  /\ routines' = Move(routines, "r_select", "done")
  /\ UNCHANGED <<isRunning, trWriteSignal, context, loops, trControl, trSession, segVars,
                 notTr>>

\* writeRoutine: case <-t.writeSignal, with its writeSegments.
RoutineTakesWrite ==
  /\ routines["r_select"] > 0
  /\ trWriteSignal > 0
  /\ trWriteSignal' = trWriteSignal - 1
  /\ LET r == WriteSegments(segments, transcript)
     IN  /\ segments' = r.segments
         /\ transcript' = Written(transcript, r, FileClosed)
  /\ routines' = Move(routines, "r_select", "r_loop")
  /\ UNCHANGED <<isRunning, trStopSignal, context, loops, trControl, trSession, trLast,
                 notTr>>

\* writeRoutine: case <-time.After(interval); due is whether the interval
\* has passed since lastWriteTime.
RoutineTimesOut(due) ==
  /\ routines["r_select"] > 0
  /\ LET r == IF due THEN WriteSegments(segments, transcript)
              ELSE [segments |-> segments, transcript |-> transcript]
     IN  /\ segments' = r.segments
         /\ transcript' = Written(transcript, r, FileClosed)
  /\ routines' = Move(routines, "r_select", "r_loop")
  /\ UNCHANGED <<isRunning, trStopSignal, trWriteSignal, context, loops, trControl,
                 trSession, trLast, notTr>>

\* processAudioLoop: the loop condition and the select on stopSignal.
LoopChecks(s) ==
  /\ loops[s].pc = "l_loop"
  /\ IF ~isRunning
     THEN /\ loops' = [loops EXCEPT ![s].pc = "done"]
          /\ UNCHANGED trStopSignal
     ELSE IF trStopSignal > 0
     THEN /\ loops' = [loops EXCEPT ![s].pc = "done"]
          /\ trStopSignal' = trStopSignal - 1
     ELSE /\ loops' = [loops EXCEPT ![s].pc = "l_peek"]
          /\ UNCHANGED trStopSignal
  /\ UNCHANGED <<isRunning, trWriteSignal, context, routines, trControl, trSession,
                 segVars, notTr>>

\* processAudioLoop: buffer.IsEmpty, buffer.Peek and the test of the
\* window's length.  The window has this timestamp and size samples; one
\* that is not enough ends the cycle.
LoopPeeks(s, timestamp, size) ==
  /\ loops[s].pc = "l_peek"
  /\ size > 0 => timestamp >= trSession.lastPeek
  /\ IF EnoughAudio(size = 0, size)
     THEN /\ loops' = [loops EXCEPT ![s].pc = "l_process", ![s].timestamp = timestamp,
                                    ![s].size = size]
          /\ trSession' = [trSession EXCEPT !.lastPeek = timestamp]
     ELSE /\ loops' = [loops EXCEPT ![s] = [NoLoop EXCEPT !.pc = "l_loop"]]
          /\ UNCHANGED trSession
  /\ UNCHANGED <<isRunning, trStopSignal, trWriteSignal, context, routines, trControl,
                 segVars, notTr>>

\* processAudioBatch: t.context.Process; an error ends the cycle.
LoopProcesses(s, result) ==
  /\ loops[s].pc = "l_process"
  /\ trSession.engineCalls < MaxEngineCalls
  /\ context' = Process(context, result, s, loops[s].timestamp)
  /\ loops' = [loops EXCEPT ![s] = IF result.err THEN [NoLoop EXCEPT !.pc = "l_loop"]
                                   ELSE [@ EXCEPT !.pc = "l_extract"]]
  /\ trSession' = [trSession EXCEPT !.engineCalls = @ + 1]
  /\ UNCHANGED <<isRunning, trStopSignal, trWriteSignal, routines, trControl, segVars,
                 notTr>>

\* processAudioBatch: the segments read from t.context; none ends the cycle.
LoopExtracts(s) ==
  /\ loops[s].pc = "l_extract"
  /\ LET found == ExtractFrom(context.segments, 1, s, loops[s].timestamp)
     IN  loops' = [loops EXCEPT ![s] = IF Len(found) > 0
                                       THEN [@ EXCEPT !.pc = "l_add", !.found = found]
                                       ELSE [NoLoop EXCEPT !.pc = "l_loop"]]
  /\ UNCHANGED <<isRunning, trStopSignal, trWriteSignal, context, routines, trControl,
                 trSession, segVars, notTr>>

\* processAudioLoop: addSegments, the threshold check and the post on
\* writeSignal; due is whether BatchSeconds have passed since lastWriteTime.
LoopAdds(s, due) ==
  /\ loops[s].pc = "l_add"
  /\ segments' = AddSegments(segments, loops[s].found)
  /\ IF Len(segments') > SegmentThreshold \/ due
     THEN LET p == Select(trWriteSignal, TRUE)
          IN  /\ ~p.blocked
              /\ trWriteSignal' = p.ch
              /\ trSession' = [trSession EXCEPT !.dropped = @ \/ p.ch = trWriteSignal,
                                                !.added = @ (+) BagOfSeq(loops[s].found)]
     ELSE /\ UNCHANGED trWriteSignal
          /\ trSession' = [trSession EXCEPT !.added = @ (+) BagOfSeq(loops[s].found)]
  /\ loops' = [loops EXCEPT ![s] = [NoLoop EXCEPT !.pc = "l_loop"]]
  /\ UNCHANGED <<isRunning, trStopSignal, context, routines, trControl, transcript, trLast,
                 notTr>>

NextTr ==
  \/ TranscriberStart
  \/ TranscriberStartRuns
  \/ TranscriberStop
  \/ TranscriberStopPostsWrite
  \/ RoutineLoop
  \/ RoutineTakesStop
  \/ RoutineTakesWrite
  \/ \E due \in BOOLEAN : RoutineTimesOut(due)
  \/ \E s \in Sources : LoopChecks(s)
  \/ \E s \in Sources : \E w \in PeekedWindows : LoopPeeks(s, w.timestamp, w.size)
  \/ \E s \in Sources : \E result \in LoopResults : LoopProcesses(s, result)
  \/ \E s \in Sources : LoopExtracts(s)
  \/ \E s \in Sources : \E due \in BOOLEAN : LoopAdds(s, due)

\* C11: at most one flush request is ever pending in a writeSignal, and
\* neither saveTimerRoutine nor the threshold check of processAudioLoop blocks
\* at its post: when a request is pending the new one is dropped and the
\* poster goes on.
C11_FlushRequestsCoalesce ==
  /\ C11_TimerPostCoalesces
  /\ trWriteSignal <= ChanCap
  /\ \A s \in Sources : loops[s].pc = "l_add" => ENABLED LoopAdds(s, TRUE)

\* A saveTimerRoutine is at its post while a request is pending, or a
\* threshold check has dropped its request and its loop has gone on.
C11_Witness ==
  \/ C11_TimerWitness
  \/ /\ trSession.dropped
     /\ trWriteSignal = ChanCap
     /\ \E s \in Sources : loops[s].pc = "l_loop"

\* C27: every segment given to addSegments is written to the transcript
\* exactly once: at any time the accumulator and the transcript together hold
\* each added segment as often as it was added, a drain moves the whole
\* accumulator to the transcript and leaves it empty, and an add, also one
\* between two drains, only appends to the accumulator.
C27_SegmentsWrittenOnce ==
  /\ [](BagOfSeq(transcript \o segments) = trSession.added)
  /\ [][/\ transcript' # transcript =>
            /\ segments' = <<>>
            /\ BagOfSeq(transcript') = BagOfSeq(transcript) (+) BagOfSeq(segments)
        /\ trSession'.added # trSession.added =>
            /\ transcript' = transcript
            /\ \E s \in Sources : segments' = segments \o loops[s].found]_vars

\* A segment was drained and written, and another was added after that drain
\* while a writeRoutine waits at its select.
C27_Witness ==
  /\ Len(transcript) = 1
  /\ Len(segments) = 1
  /\ BagOfSeq(transcript \o segments) = trSession.added
  /\ routines["r_select"] > 0

\* C28: the mic loop and the speaker loop never have an engine invocation in
\* progress at the same time: while one has called Process and has not read
\* the segments yet, the other is not in that position.
C28_OneEngineCallAtATime ==
  Cardinality({s \in Sources : loops[s].pc = "l_extract"}) <= 1

\* C29: the segments a loop takes from the context, which it tags with its
\* source and the timestamp of its window and then stores, are those of the
\* Process that was given that window.
C29_SegmentsTaggedByTheirWindow ==
  [][\A s \in Sources :
       (loops[s].pc = "l_extract" /\ loops'[s].pc = "l_add") =>
         /\ context.window.source = s
         /\ context.window.timestamp = loops[s].timestamp]_vars

\* C30: a cycle whose window is empty or shorter than MinSamples calls no
\* Process and adds no segment; a cycle whose Process fails adds no segment;
\* after either the loop is at its loop test again and goes on.
C30_ShortWindowsAndErrorsAddNothing ==
  /\ [](\A s \in Sources :
          /\ loops[s].pc \in {"l_process", "l_extract", "l_add"} =>
               loops[s].size >= MinSamples
          /\ loops[s].pc = "l_loop" => ENABLED LoopChecks(s))
  /\ [][\A s \in Sources :
          /\ (loops[s].pc = "l_peek" /\ loops'[s].pc = "l_loop") =>
               UNCHANGED <<context, segments, transcript, trSession>>
          /\ (loops[s].pc = "l_process" /\ loops'[s].pc # "l_process" /\ context'.err) =>
               /\ UNCHANGED <<segments, transcript>>
               /\ loops'[s].pc = "l_loop"
          /\ trSession'.engineCalls # trSession.engineCalls =>
               \E t \in Sources : loops[t].pc = "l_process" /\ loops[t].size >= MinSamples]_vars

\* The Process of a loop failed, nothing was added, and that loop has peeked
\* a later window and is about to call Process again.
C30_Witness ==
  /\ context.err
  /\ \E s \in Sources :
       /\ context.window.source = s
       /\ loops[s].pc = "l_process"
       /\ loops[s].size >= MinSamples
  /\ trSession.engineCalls = 1
  /\ segments = <<>>
  /\ transcript = <<>>

\* ------------------------------------------------------ ContinuousRecorder
\* The thread that calls StartRecording and StopRecording is task 0; the
\* saveChunksRoutine of the i-th StartRecording is task i.
Caller == 0
SaveRoutines == 1..MaxStarts

\* A task that is not inside saveCurrentChunks: no copies, no part number.
NoSave == [pc |-> "none", micChunksCopy |-> <<>>, speakerChunksCopy |-> <<>>, fileNum |-> 0]

NewContinuousRecorder ==
  continuous = [recordingActive |-> FALSE,
                micChunks |-> <<>>,
                speakerChunks |-> <<>>,
                currentFileNum |-> 0,
                transcriptionCh |-> "open",
                parts |-> <<>>,
                tasks |-> [t \in {Caller} \cup SaveRoutines |->
                             IF t = Caller THEN [NoSave EXCEPT !.pc = "idle"] ELSE NoSave],
                prev |-> "NewContinuousRecorder",
                again |-> FALSE,
                starts |-> 0,
                adds |-> 0]

ParkCont == continuous = None

\* A panic ends the program: no goroutine takes another step.
Alive == continuous # None /\ continuous.tasks[Caller].pc # "panicked"

\* Where a task goes on when saveCurrentChunks returns.
AfterSave(t) == IF t = Caller THEN "stop_close" ELSE "r_loop"

\* The capture devices run until main stops them, which it does before it
\* calls StopRecording.
DevicesRunning ==
  /\ continuous.tasks[Caller].pc = "idle"
  /\ continuous.prev # "StopRecording"

\* StartRecording, the whole call.
ContinuousStartRecording ==
  /\ Alive
  /\ continuous.tasks[Caller].pc = "idle"
  /\ continuous.starts < MaxStarts
  /\ continuous' = [continuous EXCEPT !.recordingActive = TRUE,
                                      !.tasks[continuous.starts + 1].pc = "r_loop",
                                      !.prev = "StartRecording",
                                      !.starts = @ + 1]
  /\ UNCHANGED notCont

\* StopRecording up to its call of saveCurrentChunks.  again: the call before
\* this one was a StopRecording too.
ContinuousStopRecording ==
  /\ Alive
  /\ continuous.tasks[Caller].pc = "idle"
  /\ continuous' = [continuous EXCEPT !.recordingActive = FALSE,
                                      !.tasks[Caller].pc = "s_take",
                                      !.again = continuous.prev = "StopRecording"]
  /\ UNCHANGED notCont

\* close(ch): closing a closed channel panics.
CloseChannel(ch) == [ch |-> "closed", panic |-> ch = "closed"]

\* close(r.transcriptionCh) and the return of StopRecording.
ContinuousStopCloses ==
  /\ Alive
  /\ continuous.tasks[Caller].pc = "stop_close"
  /\ LET c == CloseChannel(continuous.transcriptionCh)
     IN  continuous' =
           IF c.panic
           THEN [continuous EXCEPT !.tasks[Caller].pc = "panicked"]
           ELSE [continuous EXCEPT !.transcriptionCh = c.ch,
                                   !.tasks[Caller].pc = "idle",
                                   !.prev = "StopRecording",
                                   !.again = FALSE]
  /\ UNCHANGED notCont

\* saveCurrentChunks under audioMutex: the copies, the clearing, and the
\* return when there is no audio.
SaveCurrentChunksTakes(t) ==
  /\ Alive
  /\ continuous.tasks[t].pc = "s_take"
  /\ continuous' =
       [continuous EXCEPT
          !.micChunks = <<>>,
          !.speakerChunks = <<>>,
          !.tasks[t] =
            IF Len(continuous.micChunks) = 0 /\ Len(continuous.speakerChunks) = 0
            THEN [NoSave EXCEPT !.pc = AfterSave(t)]
            ELSE [pc |-> "s_read", micChunksCopy |-> continuous.micChunks,
                  speakerChunksCopy |-> continuous.speakerChunks, fileNum |-> 0]]
  /\ UNCHANGED notCont

\* r.currentFileNum++ is a read and a write of a field no mutex guards.
SaveCurrentChunksReads(t) ==
  /\ Alive
  /\ continuous.tasks[t].pc = "s_read"
  /\ continuous' = [continuous EXCEPT !.tasks[t].fileNum = continuous.currentFileNum,
                                      !.tasks[t].pc = "s_incr"]
  /\ UNCHANGED notCont

SaveCurrentChunksIncrements(t) ==
  /\ Alive
  /\ continuous.tasks[t].pc = "s_incr"
  /\ continuous' = [continuous EXCEPT !.currentFileNum = continuous.tasks[t].fileNum + 1,
                                      !.tasks[t].pc = "s_name"]
  /\ UNCHANGED notCont

\* The file name with the part number as the field has it now, and
\* createSynchronizedMix on the copies.
SaveCurrentChunksWrites(t) ==
  /\ Alive
  /\ continuous.tasks[t].pc = "s_name"
  /\ continuous' =
       [continuous EXCEPT
          !.parts = Append(@, [part |-> continuous.currentFileNum,
                               micChunks |-> continuous.tasks[t].micChunksCopy,
                               speakerChunks |-> continuous.tasks[t].speakerChunksCopy]),
          !.tasks[t] = [NoSave EXCEPT !.pc = AfterSave(t)]]
  /\ UNCHANGED notCont

\* saveChunksRoutine: the loop condition.
SaveChunksRoutineLoop(t) ==
  /\ Alive
  /\ continuous.tasks[t].pc = "r_loop"
  /\ continuous' = [continuous EXCEPT !.tasks[t].pc =
                      IF continuous.recordingActive THEN "r_sleep" ELSE "done"]
  /\ UNCHANGED notCont

\* saveChunksRoutine: the Sleep is over; the break, or saveCurrentChunks.
SaveChunksRoutineWakes(t) ==
  /\ Alive
  /\ continuous.tasks[t].pc = "r_sleep"
  /\ continuous' = [continuous EXCEPT !.tasks[t].pc =
                      IF ~continuous.recordingActive THEN "done" ELSE "s_take"]
  /\ UNCHANGED notCont

\* AddMicChunk / AddSpeakerChunk: the append under audioMutex.  The chunk is
\* named by its number in the run.
AddChunk(c) ==
  /\ Alive
  /\ DevicesRunning
  /\ continuous.adds < MaxChunks
  /\ continuous' =
       [continuous EXCEPT
          !.micChunks = IF c = "mic" THEN Append(@, continuous.adds + 1) ELSE @,
          !.speakerChunks = IF c = "mic" THEN @ ELSE Append(@, continuous.adds + 1),
          !.adds = @ + 1]
  /\ UNCHANGED notCont

NextCont ==
  \/ ContinuousStartRecording
  \/ ContinuousStopRecording
  \/ ContinuousStopCloses
  \/ \E t \in {Caller} \cup SaveRoutines : SaveCurrentChunksTakes(t)
  \/ \E t \in {Caller} \cup SaveRoutines : SaveCurrentChunksReads(t)
  \/ \E t \in {Caller} \cup SaveRoutines : SaveCurrentChunksIncrements(t)
  \/ \E t \in {Caller} \cup SaveRoutines : SaveCurrentChunksWrites(t)
  \/ \E t \in SaveRoutines : SaveChunksRoutineLoop(t)
  \/ \E t \in SaveRoutines : SaveChunksRoutineWakes(t)
  \/ \E c \in CaptureIds : AddChunk(c)

\* The writeRoutine goroutines that have not returned.
RunningRoutines == Sum(routines, RoutinePcs)

\* C31: Stop always returns: it is never at its send on writeSignal with the
\* channel full and no writeRoutine left to take the pending value, where it
\* would wait forever with processingMutex held.
C31_StopNeverBlocksForever ==
  trControl = "stop_write" => (ENABLED TranscriberStopPostsWrite \/ RunningRoutines > 0)

\* C32: once Start has returned without error the writeRoutine it launched is
\* running, and it stays so while the transcriber is running.
C32_WriterRunsWhileRunning ==
  (isRunning /\ trControl = "idle") => RunningRoutines > 0

\* C33: when Close has returned the accumulator is empty and every segment
\* the session produced is in the transcript, no loop still holds segments to
\* add, and from then on no step adds a segment or drains the accumulator
\* for the closed file.
C33_CloseLeavesNothingBehind ==
  /\ [](FileClosed =>
          /\ segments = <<>>
          /\ BagOfSeq(transcript) = trSession.added
          /\ \A s \in Sources : loops[s].pc # "l_add")
  /\ [][FileClosed => UNCHANGED <<segments, transcript>>]_vars

\* C34: a Start called while the transcriber is running returns an error and
\* changes nothing, and no step taken while it is running and no call is in
\* progress launches a writer or a polling goroutine.
C34_StartWhileRunningRefused ==
  /\ [][(trLast' # trLast /\ trLast'.op = "Start" /\ trLast'.err) =>
          /\ isRunning
          /\ UNCHANGED <<isRunning, trStopSignal, trWriteSignal, context, loops, routines,
                         trControl, trSession, segments, transcript>>]_vars
  /\ [][(isRunning /\ trControl = "idle") =>
          /\ trControl' # "start_running"
          /\ Sum(routines', RoutinePcs) <= Sum(routines, RoutinePcs)
          /\ \A s \in Sources : LoopRunning(s)' => LoopRunning(s)]_vars

C34_Witness ==
  /\ trLast.op = "Start"
  /\ trLast.err
  /\ isRunning
  /\ RunningRoutines = 1
  /\ \A s \in Sources : LoopRunning(s)

\* C35: StopRecording never waits forever at one of its two sends: when it is
\* at `r.writeSignal <- true` or at `r.stopSignal <- true` the send can be
\* taken, or an audioWriterRoutine is left to make room for it.
C35_StopRecordingNeverBlocksForever ==
  /\ control.pc = "stop_flush" => (ENABLED StopPostsFlush \/ RunningWriters > 0)
  /\ control.pc = "stop_stop" => (ENABLED StopPostsStop \/ RunningWriters > 0)

IsRecording == recordingActive

\* C36: after a StartRecording whose InitializeWAVFile failed no
\* audioWriterRoutine and no saveTimerRoutine runs, IsRecording reports false
\* and the microphone and speaker buffers stay empty.
C36_FailedStartLeavesIdle ==
  (cycles.last = "failed" /\ ~file.exists) =>
    /\ RunningWriters = 0
    /\ Sum(timers, TimerPcs) = 0
    /\ ~IsRecording
    /\ micBuffer.samples = <<>>
    /\ speakerBuffer.samples = <<>>

\* C37: the offset at which the later batch is placed is a whole number of
\* frames.  When the mix is longer than the reference batch its length is the
\* offset plus the length of the later batch, so the offset shows in it.
C37_OffsetIsWholeFrames ==
  (mixOut # None /\ BothNonEmpty /\ Len(Mixed) > Len(BatchA)) =>
    (Len(Mixed) - Len(BatchB)) % mixIn.channels = 0

\* The call with its two inputs exchanged.
Swapped ==
  TimeSyncMixAudioSamples(mixIn.samples2, mixIn.timestamp2, mixIn.samples1, mixIn.timestamp1,
                          mixIn.sampleRate, mixIn.channels)

\* C38 as stated: exchanging the two inputs gives the same samples and the
\* same timestamp, for all inputs.
C38_Symmetric ==
  mixOut # None => mixOut.out = Swapped

\* C38: exchanging the two inputs gives the same samples, and the same
\* timestamp unless both inputs are empty; with both empty each call returns
\* the timestamp of its own second input.
C38_SymmetricUnlessBothEmpty ==
  mixOut # None =>
    /\ mixOut.out.samples = Swapped.samples
    /\ IF Len(mixIn.samples1) = 0 /\ Len(mixIn.samples2) = 0
       THEN /\ mixOut.out.timestamp = mixIn.timestamp2
            /\ Swapped.timestamp = mixIn.timestamp1
       ELSE mixOut.out.timestamp = Swapped.timestamp

\* Two different batches with equal timestamps: either order gives the same mix.
C38_Witness ==
  /\ mixOut # None
  /\ mixIn.timestamp1 = mixIn.timestamp2
  /\ Len(mixIn.samples1) = 1
  /\ Len(mixIn.samples2) = MaxMixLen
  /\ mixIn.samples1[1] # mixIn.samples2[1]
  /\ mixOut.out = Swapped
  /\ Len(Mixed) = MaxMixLen

\* C39: ContinuousRecorder.StopRecording called twice in succession does not
\* panic, and no step of the second call writes a part file or advances the
\* part number.
C39_SecondStopHarmless ==
  /\ [](continuous.tasks[Caller].pc # "panicked")
  /\ [][(continuous.again /\ continuous'.tasks[Caller] # continuous.tasks[Caller]) =>
          /\ continuous'.parts = continuous.parts
          /\ continuous'.currentFileNum = continuous.currentFileNum]_vars

\* C19: no line of the transcript file stands behind a line whose segment
\* was captured more than one second later than its own.
C19_TranscriptChronological ==
  \A i, j \in 1..Len(transcript) :
    i < j => transcript[i].timestamp - transcript[j].timestamp <= Second

\* ---------------------------------------------------------- specifications
InitBuffer == InitBuf /\ ParkConc /\ ParkMix /\ ParkWav /\ ParkRec /\ ParkSeg /\ ParkTr /\ ParkCont

SpecBuffer == InitBuffer /\ [][NextBuf]_vars

SpecBufferPeek == InitBuffer /\ [][NextPeek]_vars

InitBufferConc == InitConc /\ ParkBuf /\ ParkMix /\ ParkWav /\ ParkRec /\ ParkSeg /\ ParkTr /\ ParkCont

SpecBufferConc == InitBufferConc /\ [][NextConc]_vars

InitMixer == InitMix /\ ParkBuf /\ ParkConc /\ ParkWav /\ ParkRec /\ ParkSeg /\ ParkTr /\ ParkCont

SpecMixer == InitMixer /\ [][NextMix]_vars

InitMixerDelays ==
  InitMixDelays /\ ParkBuf /\ ParkConc /\ ParkWav /\ ParkRec /\ ParkSeg /\ ParkTr /\ ParkCont

SpecMixerDelays == InitMixerDelays /\ [][NextMix]_vars

InitWAV == InitWav /\ ParkBuf /\ ParkConc /\ ParkMix /\ ParkRec /\ ParkSeg /\ ParkTr /\ ParkCont

SpecWAV == InitWAV /\ [][NextWav]_vars

InitRecorder == InitRec /\ ParkBuf /\ ParkConc /\ ParkMix /\ ParkSeg /\ ParkTr /\ ParkCont

SpecRecorder == InitRecorder /\ [][NextRec]_vars

\* One recording in which every append cycle's I/O can fail at any point.
InitRecorderIO == InitRecIO /\ ParkBuf /\ ParkConc /\ ParkMix /\ ParkSeg /\ ParkTr /\ ParkCont

NextRecIO ==
  \/ NextRec
  \/ \E io \in IOs(Len(mixedBuffer.samples)) : WriterAppends(io)

SpecRecorderIO == InitRecorderIO /\ [][NextRecIO]_vars

InitSegments == InitSeg /\ ParkBuf /\ ParkConc /\ ParkMix /\ ParkWav /\ ParkRec /\ ParkTr /\ ParkCont

SpecSegments == InitSegments /\ [][NextSeg]_vars

InitTranscriber == InitTr /\ ParkBuf /\ ParkConc /\ ParkMix /\ ParkWav /\ ParkRec /\ ParkCont

SpecTranscriber == InitTranscriber /\ [][NextTr]_vars

InitTranscriberWindows == InitTrWindows /\ ParkBuf /\ ParkConc /\ ParkMix /\ ParkWav /\ ParkRec /\ ParkCont

SpecTranscriberWindows == InitTranscriberWindows /\ [][NextTr]_vars

\* The transcriber with the return of its last Start kept.
InitTranscriberCalls == InitTrCalls /\ ParkBuf /\ ParkConc /\ ParkMix /\ ParkWav /\ ParkRec /\ ParkCont

SpecTranscriberCalls == InitTranscriberCalls /\ [][NextTr]_vars

\* The transcriber with Close as one of the calls of its owner.
NextTrClose ==
  \/ NextTr
  \/ TranscriberClose
  \/ TranscriberClosePostsWrite
  \/ TranscriberCloseWrites

SpecTranscriberClose == InitTranscriber /\ [][NextTrClose]_vars

InitContinuous ==
  /\ NewContinuousRecorder
  /\ ParkBuf /\ ParkConc /\ ParkMix /\ ParkWav /\ ParkRec /\ ParkSeg /\ ParkTr

SpecContinuous == InitContinuous /\ [][NextCont]_vars

\* The two programs that post flush requests, one of them running.
InitFlushRequests == InitRecorder \/ InitTranscriber

NextFlushRequests == NextRec \/ NextTr

SpecFlushRequests == InitFlushRequests /\ [][NextFlushRequests]_vars

====
